---- MODULE Spec2Model ----
(***************************************************************************)
(* db-sync: per-table differential synchronisation of a target table from  *)
(* a source table (src/src/operation.cpp, src/src/keys.cpp,                *)
(* src/src/db.cpp).                                                        *)
(*                                                                         *)
(* Two specifications share the definitions of this module:                *)
(*   SpecKeys  - a pair of TableKeys filled by loadRow, sorted and merged  *)
(*               by compareKeys;                                           *)
(*   Spec      - one run of Operation::execute(table) against a source     *)
(*               and a target table; SpecRerun chains a second run.        *)
(* Indexes keep the 0-based values of the code; sequences are 1-based, so  *)
(* position i of a vector v is v[i + 1].                                   *)
(***************************************************************************)
EXTENDS Integers, Sequences, FiniteSets, TLC

\* ------------------------------------------------------------------ bounds
\* most rows one side of the table holds
MaxRows == 2
\* most rows a TableKeys is loaded with in SpecKeys
MaxLoad == 3
\* largest value of config.modifyBulk and of config.pkBulk
MaxBulk == 2
\* most tables of the agreed set in SpecJobs
MaxTables == 3
\* most fields of a TableRow in SpecRow
MaxWidth == 3
\* most columns of a table in SpecStart
MaxCols == 2
\* largest --jobs in SpecJobs, and the machine's hardware_concurrency
MaxJobs == 2

\* primary keys: two integer columns, compared column by column
KeyDom == {<<1, 1>>, <<1, 2>>, <<2, 1>>}

\* the literal that COALESCE substitutes for NULL in the MD5 payload
\* (U+2205 in the code, written "@" here)
SQL_NULL_STRING == "@"

NullField == [null |-> TRUE, s |-> ""]
StrField(str) == [null |-> FALSE, s |-> str]
\* contents of the one non-key column
Values == {NullField, StrField("a")}

Absent == [null |-> TRUE, s |-> "absent"]

\* ------------------------------------------------------------- TableKeys
\* std::partial_ordering of two scalars of one column
CompareScalar(a, b) ==
  IF a < b THEN "less" ELSE IF a > b THEN "greater" ELSE "equivalent"

RECURSIVE CompareFrom(_, _, _)
CompareFrom(k1, k2, i) ==
  IF i > Len(k1) THEN "equivalent"
  ELSE LET c == CompareScalar(k1[i], k2[i])
       IN IF c = "equivalent" THEN CompareFrom(k1, k2, i + 1) ELSE c

\* TableKeys::compare(i1, other, i2): raw positions, column by column,
\* stopping at the first column that is not equivalent
compare(tk, i1, other, i2) == CompareFrom(tk.keys[i1 + 1], other.keys[i2 + 1], 1)

\* a plausible slip: less-or-equivalent
less2OrEquivalent(tk, i1, i2) ==
  IF i1 = i2 THEN FALSE ELSE compare(tk, i1, tk, i2) \in {"less", "equivalent"}

\* TableKeys::less(i1, i2) on raw positions
less2(tk, i1, i2) ==
  IF i1 = i2 THEN FALSE ELSE compare(tk, i1, tk, i2) = "less"

\* TableKeys::less(i1, other, i2) on sorted positions, through index[]
less(tk, i1, other, i2) ==
  compare(tk, tk.index[i1 + 1], other, other.index[i2 + 1]) = "less"

\* TableKeys::TableKeys()
NewTableKeys ==
  [keys |-> <<>>, count |-> 0, sorted |-> TRUE, index |-> <<>>, flags |-> <<>>]

\* a plausible slip: the flag follows the last pair only
loadRowLastPairOnly(tk, k) ==
  LET t1 == [tk EXCEPT !.keys = Append(@, k), !.count = @ + 1]
  IN IF t1.count > 1
     THEN [t1 EXCEPT !.sorted = less2(t1, t1.count - 2, t1.count - 1)]
     ELSE t1

\* TableKeys::loadRow
loadRow(tk, k) ==
  LET t1 == [tk EXCEPT !.keys = Append(@, k), !.count = @ + 1]
  IN IF t1.count > 1 /\ t1.sorted
     THEN [t1 EXCEPT !.sorted = less2(t1, t1.count - 2, t1.count - 1)]
     ELSE t1

RECURSIVE loadRows(_, _)
loadRows(tk, ks) ==
  IF ks = <<>> THEN tk ELSE loadRows(loadRow(tk, Head(ks)), Tail(ks))

\* std::sort with the comparator of TableKeys::sort, as an insertion sort:
\* v is put before the first element it is less than
RECURSIVE InsertSorted(_, _, _)
InsertSorted(tk, s, v) ==
  IF s = <<>> THEN <<v>>
  ELSE IF less2(tk, v, Head(s)) THEN <<v>> \o s
       ELSE <<Head(s)>> \o InsertSorted(tk, Tail(s), v)

RECURSIVE StdSort(_, _)
StdSort(tk, s) ==
  IF s = <<>> THEN <<>>
  ELSE InsertSorted(tk, StdSort(tk, SubSeq(s, 1, Len(s) - 1)), s[Len(s)])

\* TableKeys::sort
sort(tk) ==
  LET idx == [i \in 1..tk.count |-> i - 1]
      fl == [i \in 1..tk.count |-> FALSE]
  IN [tk EXCEPT !.index = IF tk.count > 0 /\ ~tk.sorted THEN StdSort(tk, idx) ELSE idx,
                !.flags = fl]

\* TableKeys::setFlag
setFlag(tk, i, v) == [tk EXCEPT !.flags[i + 1] = v]

\* TableKeys::revertFlags
revertFlags(tk) == [tk EXCEPT !.flags = [i \in 1..Len(@) |-> ~@[i]]]

\* TableKeys::size(flag)
sizeFlag(tk, f) == Cardinality({i \in 1..Len(tk.flags) : tk.flags[i] = f})

\* the key TableKeys::bind / rowString read at sorted position i
KeyAt(tk, i) == tk.keys[tk.index[i + 1] + 1]

\* the sorted position at which tk holds key k
KeyPos(tk, k) == CHOOSE i \in 0..(tk.count - 1) : KeyAt(tk, i) = k

\* ----------------------------------------------------------- compareKeys
\* a plausible slip: the target is not drained after the source ran out
RECURSIVE mergeNoDestDrain(_, _, _, _)
mergeNoDestDrain(src, dest, si, di) ==
  IF si < src.count /\ di < dest.count
  THEN IF less(src, si, dest, di) THEN mergeNoDestDrain(setFlag(src, si, TRUE), dest, si + 1, di)
       ELSE IF less(dest, di, src, si) THEN mergeNoDestDrain(src, setFlag(dest, di, TRUE), si, di + 1)
       ELSE mergeNoDestDrain(src, dest, si + 1, di + 1)
  ELSE IF si < src.count THEN mergeNoDestDrain(setFlag(src, si, TRUE), dest, si + 1, di)
  ELSE <<src, dest>>

\* a plausible slip: an equivalent pair advances the source cursor only
RECURSIVE mergeEqualStepsSrcOnly(_, _, _, _)
mergeEqualStepsSrcOnly(src, dest, si, di) ==
  IF si < src.count /\ di < dest.count
  THEN IF less(src, si, dest, di) THEN mergeEqualStepsSrcOnly(setFlag(src, si, TRUE), dest, si + 1, di)
       ELSE IF less(dest, di, src, si) THEN mergeEqualStepsSrcOnly(src, setFlag(dest, di, TRUE), si, di + 1)
       ELSE mergeEqualStepsSrcOnly(src, dest, si + 1, di)
  ELSE IF si < src.count THEN mergeEqualStepsSrcOnly(setFlag(src, si, TRUE), dest, si + 1, di)
  ELSE IF di < dest.count THEN mergeEqualStepsSrcOnly(src, setFlag(dest, di, TRUE), si, di + 1)
  ELSE <<src, dest>>

\* the two loops of Operation::compareKeys: the merge walk, then the drains
RECURSIVE merge(_, _, _, _)
merge(src, dest, si, di) ==
  IF si < src.count /\ di < dest.count
  THEN IF less(src, si, dest, di) THEN merge(setFlag(src, si, TRUE), dest, si + 1, di)
       ELSE IF less(dest, di, src, si) THEN merge(src, setFlag(dest, di, TRUE), si, di + 1)
       ELSE merge(src, dest, si + 1, di + 1)
  ELSE IF si < src.count THEN merge(setFlag(src, si, TRUE), dest, si + 1, di)
  ELSE IF di < dest.count THEN merge(src, setFlag(dest, di, TRUE), si, di + 1)
  ELSE <<src, dest>>

\* Operation::compareKeys: the flagged tables and <<onlySrc, common, onlyDest>>
compareKeys(src, dest) ==
  LET m == merge(src, dest, 0, 0)
      onlySrc == sizeFlag(m[1], TRUE)
      common == m[1].count - onlySrc
      onlyDest == sizeFlag(m[2], TRUE)
  IN [src |-> m[1], dest |-> m[2], diff |-> <<onlySrc, common, onlyDest>>]

\* ------------------------------------------------------------- variables
VARIABLES
  pc,        \* position in Operation::execute(table)
  result,    \* "none" while running, then "ok" / "fail" (execute returned) / "abort" (assert)
  cfg,       \* OperationConfig
  mayFail,   \* whether the database may fail a statement in this run
  srcDb,     \* source table: key -> non-key field, Absent when no row
  dstDb,     \* target table, committed content
  dstSess,   \* target table as the worker's session sees it
  txOpen,    \* Db::tx of the target holds an uncommitted transaction
  srcKeys, destKeys,   \* the two TableKeys
  diff,      \* <<onlySrc, common, onlyDest>> of compareKeys
  iters,     \* indexIter, fromIter, toIter
  count, total,        \* locals of the running phase
  stmts,     \* readCount of the two Db, statement in the shared write slot
  wlog,      \* INSERT / UPDATE / DELETE executed on the target, in order
  dbRw,      \* Operation::dbRw
  rowsRead,  \* rows fetched from either database
  run,       \* 1 in the first run, 2 in a run chained after it
  prev,      \* what the first run was and found
  dst0,      \* the target table before the first run
  loaded,    \* what the two key loads of execute(table) returned
  mgr,       \* the shared Operation: run flag and tables still to process
  jobs,      \* the OpJob of each worker thread
  main,      \* main(): position, ok, handlers installed, exit code
  handed,    \* per table: times tableToProcess returned it, times it was processed
  env,       \* command line, the two schemas, and the locals of main's start-up
  call       \* a call of TableRow / Field code on its own: arguments and result

vars == <<pc, result, cfg, mayFail, call, srcDb, dstDb, dstSess, txOpen, srcKeys, destKeys,
          diff, iters, count, total, stmts, wlog, dbRw, rowsRead, run, prev, dst0,
          loaded, mgr, jobs, main, handed, env>>

jobVars == <<result, cfg, mayFail, call, srcDb, dstDb, dstSess, txOpen, iters, count, total,
             stmts, wlog, dbRw, rowsRead, run, prev, dst0, loaded, mgr, jobs, main, handed,
             env>>

\* the variables of the manager, the workers and main
schedVars == <<mgr, jobs, main, handed, env>>

\* the variables of one table's processing
tableVars == <<pc, result, srcDb, dstDb, dstSess, txOpen, srcKeys, destKeys, diff,
               iters, count, total, stmts, wlog, dbRw, rowsRead, run, prev, dst0, loaded>>

NoIter == [index |-> 0, flag |-> FALSE]
NoIters == [indexIter |-> NoIter, fromIter |-> NoIter, toIter |-> NoIter]
NoStmts == [fromRead |-> 0, toRead |-> 0, write |-> "none"]
NoPrev == [mode |-> "none", nUpd |-> 0]
EmptyTable == [k \in KeyDom |-> Absent]
\* Operation before checkTables, no OpJob created, main() not started
IdleMgr == [run |-> TRUE, tables |-> {}]
IdleJobs == <<>>
IdleMain == [pc |-> "idle", ok |-> TRUE, installed |-> {}, failed |-> {}, exit |-> -1,
             someRunning |-> TRUE, param |-> 0, hw |-> 1, agreed |-> {},
             finished |-> {}]
\* no command line read, no schema looked at
IdleEnv == [args |-> <<>>, filter |-> {}, srcTables |-> {}, dstTables |-> {},
            fromTables |-> <<>>, todo |-> {}, checkColumns |-> TRUE,
            metaLoaded |-> FALSE, differ |-> {}]
NoCall == [fn |-> "none"]
IdleCfg == [mode |-> "Copy", update |-> FALSE, dryRun |-> FALSE, noFail |-> FALSE, modifyBulk |-> 1]

\* ---------------------------------------------------------------- SpecKeys
\* a pair of TableKeys, loaded row by row in any order, sorted, then merged
InitKeys ==
  /\ pc = "kload"
  /\ srcKeys = NewTableKeys /\ destKeys = NewTableKeys
  /\ diff = <<0, 0, 0>>
  /\ result = "none" /\ cfg = IdleCfg /\ mayFail = FALSE
  /\ srcDb = EmptyTable /\ dstDb = EmptyTable /\ dstSess = EmptyTable /\ dst0 = EmptyTable
  /\ txOpen = FALSE /\ iters = NoIters /\ count = 0 /\ total = 0 /\ stmts = NoStmts
  /\ wlog = <<>> /\ dbRw = 0 /\ rowsRead = 0 /\ run = 1 /\ prev = NoPrev
  /\ loaded = <<FALSE, FALSE>>
  /\ mgr = IdleMgr /\ jobs = IdleJobs /\ main = IdleMain /\ handed = <<>>
  /\ env = IdleEnv /\ call = NoCall

LoadRowSrc ==
  /\ pc = "kload" /\ srcKeys.count < MaxLoad
  /\ \E k \in KeyDom : srcKeys' = loadRow(srcKeys, k)
  /\ UNCHANGED <<pc, destKeys, diff>> /\ UNCHANGED jobVars

LoadRowDest ==
  /\ pc = "kload" /\ destKeys.count < MaxLoad
  /\ \E k \in KeyDom : destKeys' = loadRow(destKeys, k)
  /\ UNCHANGED <<pc, srcKeys, diff>> /\ UNCHANGED jobVars

SortKeys ==
  /\ pc = "kload"
  /\ srcKeys' = sort(srcKeys) /\ destKeys' = sort(destKeys)
  /\ pc' = "ksorted"
  /\ UNCHANGED diff /\ UNCHANGED jobVars

CompareKeysOnly ==
  /\ pc = "ksorted"
  /\ LET r == compareKeys(srcKeys, destKeys)
     IN srcKeys' = r.src /\ destKeys' = r.dest /\ diff' = r.diff
  /\ pc' = "kdone"
  /\ UNCHANGED jobVars

NextKeys == LoadRowSrc \/ LoadRowDest \/ SortKeys \/ CompareKeysOnly

SpecKeys == InitKeys /\ [][NextKeys]_vars

\* ------------------------------------------------------ TableKeysIterator
\* the scan of TableKeys::iter and of operator++: the first position from i
\* on whose flag is the wanted one, count when there is none (the read of
\* flags[count] that ends the scan does not change where it stops)
RECURSIVE ScanFlag(_, _, _)
ScanFlag(tk, flag, i) ==
  IF i < tk.count /\ tk.flags[i + 1] # flag THEN ScanFlag(tk, flag, i + 1) ELSE i

\* a plausible slip: the scan for the first matching position is missing
iterFromStart(tk, flag, oob) ==
  [index |-> 0, flag |-> IF 0 < tk.count THEN tk.flags[1] ELSE oob]

\* TableKeys::iter(flag) and the constructor of TableKeysIterator: the
\* iterator keeps flags[index], which is read outside the vector (oob) when
\* no position matches
iter(tk, flag, oob) ==
  LET i == ScanFlag(tk, flag, 0)
  IN [index |-> i, flag |-> IF i < tk.count THEN tk.flags[i + 1] ELSE oob]

\* TableKeysIterator::end
IterEnd(tk, it) == it.index >= tk.count

\* TableKeysIterator::operator++
IterNext(tk, it) == [it EXCEPT !.index = ScanFlag(tk, it.flag, it.index + 1)]

\* --------------------------------------------------------------------- Db
Min(a, b) == IF a < b THEN a ELSE b
Range(s) == {s[i] : i \in 1..Len(s)}
\* the orders in which a statement without ORDER BY may return the rows of S
Orders(S) == {o \in [1..Cardinality(S) -> S] : \A i, j \in 1..Cardinality(S) : o[i] = o[j] => i = j}
Rows(t) == {k \in KeyDom : t[k] # Absent}
Tables == {t \in [KeyDom -> Values \cup {Absent}] : Cardinality(Rows(t)) <= MaxRows}

\* the order of the database's primary index, which is not the order of
\* TableKeys::compare: the second key column weighs more than the first
DbLess(k1, k2) == k1[2] < k2[2] \/ (k1[2] = k2[2] /\ k1[1] < k2[1])
\* the order in which the paged scan of Db::loadPk returns the keys S
ScanOrder(S) == CHOOSE o \in Orders(S) : \A i, j \in 1..Cardinality(S) : i < j => DbLess(o[i], o[j])

\* number of primary-key columns (Db::keysCount)
KeysCount == 2

\* a fetched TableRow of SELECT *: the key columns, then the non-key column
RowFields(k, v) == k \o <<v>>

\* COALESCE(col, SQL_NULL_STRING) of the MD5 projection
Coalesce(f) == IF f.null THEN SQL_NULL_STRING ELSE f.s

\* MD5(CONCAT(COALESCE(...))) over the non-key columns; the digest is taken
\* to be collision free, so it is the payload it digests
Md5Check(v) == <<"md5", Coalesce(v)>>

\* the bind loop stepping to the next position whatever its flag
RECURSIVE TakeKeysAnyFlag(_, _, _)
TakeKeysAnyFlag(tk, it, n) ==
  IF n = 0 \/ IterEnd(tk, it) THEN [keys |-> <<>>, it |-> it]
  ELSE LET r == TakeKeysAnyFlag(tk, [it EXCEPT !.index = it.index + 1], n - 1)
       IN [keys |-> <<KeyAt(tk, it.index)>> \o r.keys, it |-> r.it]

\* the bind loop of Db::selectExecute: up to n keys from the iterator
RECURSIVE TakeKeys(_, _, _)
TakeKeys(tk, it, n) ==
  IF n = 0 \/ IterEnd(tk, it) THEN [keys |-> <<>>, it |-> it]
  ELSE LET r == TakeKeys(tk, IterNext(tk, it), n - 1)
       IN [keys |-> <<KeyAt(tk, it.index)>> \o r.keys, it |-> r.it]

\* TableRow::rotate turning the other way
rotateRight(fields, moveCount) ==
  SubSeq(fields, Len(fields) - moveCount + 1, Len(fields))
    \o SubSeq(fields, 1, Len(fields) - moveCount)

\* TableRow::rotate
rotate(fields, moveCount) ==
  SubSeq(fields, moveCount + 1, Len(fields)) \o SubSeq(fields, 1, moveCount)

\* the statement Db::insertExecute runs: INSERT INTO t VALUES(:v0, ...)
InsertExec(sess, fields) ==
  LET k == SubSeq(fields, 1, KeysCount)
  IN [sess EXCEPT ![k] = fields[KeysCount + 1]]

\* the statement Db::updateExecute runs on the rotated row:
\* UPDATE t SET c = :v0 WHERE pk1 = :k0 AND pk2 = :k1, bound by position
UpdateExec(sess, fields) ==
  LET r == rotate(fields, KeysCount)
      n == Len(r)
      k == SubSeq(r, n - KeysCount + 1, n)
  IN IF sess[k] # Absent THEN [sess EXCEPT ![k] = r[1]] ELSE sess

\* the statement Db::deleteExecute runs: DELETE FROM t WHERE pk1 = .. AND pk2 = ..
DeleteExec(sess, fields) ==
  LET k == SubSeq(fields, 1, KeysCount)
  IN [sess EXCEPT ![k] = Absent]

Exec(op, sess, fields) ==
  IF op = "INSERT" THEN InsertExec(sess, fields)
  ELSE IF op = "UPDATE" THEN UpdateExec(sess, fields)
  ELSE DeleteExec(sess, fields)

\* an INSERT of a key the target holds is refused by the primary key
Accepts(op, sess, fields) ==
  op = "INSERT" => sess[SubSeq(fields, 1, KeysCount)] = Absent

\* the outcomes the database may give a statement
OkSet(c, mf) == IF mf /\ ~c.dryRun THEN BOOLEAN ELSE {TRUE}

\* a plausible slip: the dry-run test is missing from the row loop
RECURSIVE WriteRowsIgnoringDryRun(_, _, _, _, _, _)
WriteRowsIgnoringDryRun(op, rows, oks, i, st, c) ==
  IF i > Len(rows) THEN st
  ELSE LET ok == oks[i] /\ Accepts(op, st.sess, rows[i])
           st1 == [sess |-> IF ok THEN Exec(op, st.sess, rows[i]) ELSE st.sess,
                   log |-> Append(st.log, [op |-> op, key |-> SubSeq(rows[i], 1, KeysCount), ok |-> ok]),
                   ret |-> TRUE, n |-> st.n]
       IN IF ~ok /\ ~c.noFail
          THEN [st1 EXCEPT !.ret = FALSE]
          ELSE WriteRowsIgnoringDryRun(op, rows, oks, i + 1, [st1 EXCEPT !.n = @ + 1], c)

\* a plausible slip: a failed statement ends the loop whatever noFail is
RECURSIVE WriteRowsNoFailIgnored(_, _, _, _, _, _)
WriteRowsNoFailIgnored(op, rows, oks, i, st, c) ==
  IF i > Len(rows) THEN st
  ELSE IF c.dryRun
       THEN WriteRowsNoFailIgnored(op, rows, oks, i + 1, [st EXCEPT !.n = @ + 1], c)
       ELSE LET ok == oks[i] /\ Accepts(op, st.sess, rows[i])
                st1 == [sess |-> IF ok THEN Exec(op, st.sess, rows[i]) ELSE st.sess,
                        log |-> Append(st.log, [op |-> op, key |-> SubSeq(rows[i], 1, KeysCount), ok |-> ok]),
                        ret |-> TRUE, n |-> st.n]
            IN IF ~ok
               THEN [st1 EXCEPT !.ret = FALSE]
               ELSE WriteRowsNoFailIgnored(op, rows, oks, i + 1, [st1 EXCEPT !.n = @ + 1], c)

\* a plausible slip: the row loop is left after its first statement
WriteRowsFirstOnly(op, rows, oks, i, st, c) ==
  IF i > Len(rows) \/ c.dryRun THEN [st EXCEPT !.n = Len(rows)]
  ELSE LET ok == oks[i] /\ Accepts(op, st.sess, rows[i])
       IN [sess |-> IF ok THEN Exec(op, st.sess, rows[i]) ELSE st.sess,
           log |-> Append(st.log, [op |-> op, key |-> SubSeq(rows[i], 1, KeysCount), ok |-> ok]),
           ret |-> ok \/ c.noFail, n |-> Len(rows)]

\* a plausible slip: the values bound are those of the row fetched first
RECURSIVE WriteRowsFirstValues(_, _, _, _, _, _)
WriteRowsFirstValues(op, rows, oks, i, st, c) ==
  IF i > Len(rows) THEN st
  ELSE IF c.dryRun
       THEN WriteRowsFirstValues(op, rows, oks, i + 1, [st EXCEPT !.n = @ + 1], c)
       ELSE LET row == SubSeq(rows[i], 1, KeysCount)
                         \o SubSeq(rows[1], KeysCount + 1, Len(rows[1]))
                ok == oks[i] /\ Accepts(op, st.sess, row)
                st1 == [sess |-> IF ok THEN Exec(op, st.sess, row) ELSE st.sess,
                        log |-> Append(st.log, [op |-> op, key |-> SubSeq(row, 1, KeysCount), ok |-> ok]),
                        ret |-> TRUE, n |-> st.n]
            IN IF ~ok /\ ~c.noFail
               THEN [st1 EXCEPT !.ret = FALSE]
               ELSE WriteRowsFirstValues(op, rows, oks, i + 1, [st1 EXCEPT !.n = @ + 1], c)

\* the row loop of executeAdd / executeUpdate / executeDelete from row i on:
\* a statement per row unless dryRun; a failed statement ends the phase with
\* false unless noFail.  st.n counts the rows the loop got past.
RECURSIVE WriteRows(_, _, _, _, _, _)
WriteRows(op, rows, oks, i, st, c) ==
  IF i > Len(rows) THEN st
  ELSE IF c.dryRun
       THEN WriteRows(op, rows, oks, i + 1, [st EXCEPT !.n = @ + 1], c)
       ELSE LET ok == oks[i] /\ Accepts(op, st.sess, rows[i])
                st1 == [sess |-> IF ok THEN Exec(op, st.sess, rows[i]) ELSE st.sess,
                        log |-> Append(st.log, [op |-> op, key |-> SubSeq(rows[i], 1, KeysCount), ok |-> ok]),
                        ret |-> TRUE, n |-> st.n]
            IN IF ~ok /\ ~c.noFail
               THEN [st1 EXCEPT !.ret = FALSE]
               ELSE WriteRows(op, rows, oks, i + 1, [st1 EXCEPT !.n = @ + 1], c)

\* a plausible slip: the session commits every statement as it runs
CommittedEveryStatement(db, w) == w.sess

\* Db::transactionCommit at the end of a row loop: the loop that returned
\* false never reaches it, and the target keeps what was committed before
Committed(db, w) == IF w.ret THEN w.sess ELSE db

\* Db::transactionBegin: tx.emplace ends a transaction still held, which
\* rolls back what it did not commit
SessAtBegin == IF txOpen THEN dstDb ELSE dstSess

\* a plausible slip: the delete phase does not test the mode
AfterUpdateAlwaysDelete == "delete"

\* the phase Operation::execute(table) enters after executeUpdate, and after
\* executeAdd, returned true
AfterUpdate == IF cfg.mode = "Sync" THEN "delete" ELSE "done"
AfterAdd == IF cfg.update THEN "update" ELSE AfterUpdate
ResultAt(p) == IF p = "done" THEN "ok" ELSE "none"

\* a plausible slip: the value a phase returned is not tested
ReturnIgnored(at, next, ok) == [pc |-> next, result |-> ResultAt(next)]

\* Operation::execute(table) on the return of a phase: false ends the table
\* where it is, true enters the phase that follows
Return(at, next, ok) ==
  IF ok THEN [pc |-> next, result |-> ResultAt(next)] ELSE [pc |-> at, result |-> "fail"]

\* ------------------------------------------------------------------- Spec
Configs ==
  [mode : {"Copy", "Sync"}, update : BOOLEAN, dryRun : BOOLEAN, noFail : BOOLEAN,
   modifyBulk : 1..MaxBulk]

Init ==
  /\ pc = "load" /\ result = "none"
  /\ cfg \in Configs
  /\ mayFail = TRUE
  /\ srcDb \in Tables /\ dstDb \in Tables
  /\ dstSess = dstDb /\ dst0 = dstDb /\ txOpen = FALSE
  /\ srcKeys = NewTableKeys /\ destKeys = NewTableKeys
  /\ diff = <<0, 0, 0>> /\ iters = NoIters /\ count = 0 /\ total = 0
  /\ stmts = NoStmts /\ wlog = <<>> /\ dbRw = 0 /\ rowsRead = 0
  /\ run = 1 /\ prev = NoPrev
  /\ loaded = <<FALSE, FALSE>>
  /\ mgr = IdleMgr /\ jobs = IdleJobs /\ main = IdleMain /\ handed = <<>>
  /\ env = IdleEnv /\ call = NoCall

\* Operation::execute(table) up to executeAdd: the two asynchronous key
\* loads, each side scanned in the order of its primary index and then
\* sorted, their join, and compareKeys
LoadAndCompare ==
  /\ pc = "load" /\ result = "none"
  /\ LET so == ScanOrder(Rows(srcDb))
         do == ScanOrder(Rows(dstSess))
     IN
       LET r == compareKeys(sort(loadRows(NewTableKeys, so)), sort(loadRows(NewTableKeys, do)))
       IN /\ srcKeys' = r.src /\ destKeys' = r.dest /\ diff' = r.diff
          /\ dbRw' = dbRw + Len(so) + Len(do)
          /\ rowsRead' = rowsRead + Len(so) + Len(do)
  /\ pc' = "add"
  /\ loaded' = <<TRUE, TRUE>>
  /\ UNCHANGED <<result, cfg, mayFail, call, srcDb, dstDb, dstSess, txOpen, iters, count,
                 total, stmts, wlog, run, prev, dst0>>
  /\ UNCHANGED schedVars

\* the TableKeys a key load leaves: all rows sorted when loadPk returned
\* true, else the n rows consumed before the failure, which sort never saw
KeysLoaded(db, ok, n) ==
  IF ok THEN sort(loadRows(NewTableKeys, ScanOrder(Rows(db))))
  ELSE loadRows(NewTableKeys, SubSeq(ScanOrder(Rows(db)), 1, n))

\* Operation::execute(table) up to executeAdd when a key load returns false.
\* assert(loaded) ends the process where asserts are compiled in; where they
\* are not, compareKeys runs on what was loaded: a side that failed with
\* rows in it has an empty index and empty flags, the merge reads index[0]
\* of the empty vector or setFlag throws out of flags.at, and the process
\* ends there too (pc "diff"); a side that failed before its first row is an
\* empty table
LoadFailed ==
  /\ pc = "load" /\ result = "none"
  /\ \E sOk, dOk, asserted \in BOOLEAN :
       \E sn \in 0..Cardinality(Rows(srcDb)), dn \in 0..Cardinality(Rows(dstSess)) :
         /\ ~(sOk /\ dOk)
         /\ sOk => sn = 0
         /\ dOk => dn = 0
         /\ LET s == KeysLoaded(srcDb, sOk, sn)
                d == KeysLoaded(dstSess, dOk, dn)
                crash == asserted \/ (~sOk /\ s.count > 0) \/ (~dOk /\ d.count > 0)
                r == compareKeys(s, d)
            IN /\ loaded' = <<sOk, dOk>>
               /\ dbRw' = dbRw + s.count + d.count
               /\ rowsRead' = rowsRead + s.count + d.count
               /\ IF crash
                  THEN /\ srcKeys' = s /\ destKeys' = d
                       /\ result' = "abort" /\ UNCHANGED diff
                       /\ pc' = IF asserted THEN pc ELSE "diff"
                  ELSE /\ srcKeys' = r.src /\ destKeys' = r.dest /\ diff' = r.diff
                       /\ pc' = "add" /\ UNCHANGED result
  /\ UNCHANGED <<cfg, mayFail, call, srcDb, dstDb, dstSess, txOpen, iters, count,
                 total, stmts, wlog, run, prev, dst0>>
  /\ UNCHANGED schedVars

\* Operation::canRun
canRun(m) == m.run

\* Operation::stop with the flag toggled instead of cleared
stopToggles(m) == [m EXCEPT !.run = ~m.run]

\* Operation::stop: the running flag is cleared
stop(m) == [m EXCEPT !.run = FALSE]

\* stop() is called, by the signal handler or by the wait loop of main,
\* while a worker is inside execute(table)
StopWhileRunning ==
  /\ result = "none"
  /\ canRun(mgr)
  /\ mgr' = stop(mgr)
  /\ UNCHANGED <<pc, result, cfg, mayFail, call, srcDb, dstDb, dstSess, txOpen, srcKeys,
                 destKeys, diff, iters, count, total, stmts, wlog, dbRw, rowsRead,
                 run, prev, dst0, loaded, jobs, main, handed, env>>

\* Operation::executeAdd up to its loop
ExecuteAddBegin ==
  /\ pc = "add" /\ result = "none"
  /\ IF diff[1] = 0
     THEN /\ pc' = Return("add", AfterAdd, TRUE).pc
          /\ result' = Return("add", AfterAdd, TRUE).result
          /\ UNCHANGED <<total, count, iters, stmts>>
     ELSE /\ total' = diff[1] /\ count' = 0
          /\ stmts' = [stmts EXCEPT !.write = "insert"]
          /\ \E oob \in BOOLEAN :
               LET it == iter(srcKeys, TRUE, oob)
                   r == IF IterEnd(srcKeys, it) THEN Return("addLoop", AfterAdd, TRUE)
                        ELSE [pc |-> "addLoop", result |-> "none"]
               IN /\ iters' = [iters EXCEPT !.indexIter = it]
                  /\ pc' = r.pc /\ result' = r.result
  /\ UNCHANGED <<cfg, mayFail, call, loaded, mgr, jobs, main, handed, env, srcDb, dstDb, dstSess, txOpen, srcKeys, destKeys, diff,
                 wlog, dbRw, rowsRead, run, prev, dst0>>

\* one turn of the loop of Operation::executeAdd: bulk select of the chunk's
\* source rows, then one transaction of INSERTs
AddChunk ==
  /\ pc = "addLoop" /\ result = "none"
  /\ LET bulk == Min(total - count, cfg.modifyBulk)
         st1 == IF count = 0 \/ bulk < cfg.modifyBulk
                THEN [stmts EXCEPT !.fromRead = bulk] ELSE stmts
         sel == TakeKeys(srcKeys, iters.indexIter, st1.fromRead)
         found == {k \in Range(sel.keys) : srcDb[k] # Absent}
     IN /\ stmts' = st1
        /\ \E rok \in OkSet([cfg EXCEPT !.dryRun = FALSE], mayFail) :
             IF ~rok
             THEN /\ pc' = Return("addLoop", AfterAdd, FALSE).pc
                  /\ result' = Return("addLoop", AfterAdd, FALSE).result
                  /\ UNCHANGED <<dstDb, dstSess, txOpen, iters, count, wlog, dbRw, rowsRead>>
             ELSE \E ord \in Orders(found), oks \in [1..Cardinality(found) -> OkSet(cfg, mayFail)] :
                    LET rows == [i \in 1..Len(ord) |-> RowFields(ord[i], srcDb[ord[i]])]
                        w == WriteRows("INSERT", rows, oks, 1,
                                       [sess |-> SessAtBegin, log |-> wlog, ret |-> TRUE, n |-> 0], cfg)
                        r == IF ~w.ret THEN Return("addLoop", AfterAdd, FALSE)
                             ELSE IF IterEnd(srcKeys, sel.it) THEN Return("addLoop", AfterAdd, TRUE)
                             ELSE [pc |-> "addLoop", result |-> "none"]
                    IN /\ rowsRead' = rowsRead + Len(rows)
                       /\ wlog' = w.log
                       /\ dstSess' = w.sess
                       /\ iters' = [iters EXCEPT !.indexIter = sel.it]
                       /\ pc' = r.pc /\ result' = r.result
                       /\ dstDb' = Committed(dstDb, w)
                       /\ IF ~w.ret
                          THEN /\ txOpen' = TRUE
                               /\ UNCHANGED <<count, dbRw>>
                          ELSE /\ txOpen' = FALSE
                               /\ count' = count + Len(rows)
                               /\ dbRw' = dbRw + Len(rows)
  /\ UNCHANGED <<cfg, mayFail, call, loaded, mgr, jobs, main, handed, env, srcDb, srcKeys, destKeys, diff, total, run, prev, dst0>>

\* Operation::executeUpdate up to the MD5 loop
ExecuteUpdateBegin ==
  /\ pc = "update" /\ result = "none"
  /\ IF diff[2] = 0
     THEN /\ pc' = Return("update", AfterUpdate, TRUE).pc
          /\ result' = Return("update", AfterUpdate, TRUE).result
          /\ UNCHANGED <<total, count, iters, srcKeys>>
     ELSE /\ total' = diff[2] /\ count' = 0
          /\ srcKeys' = revertFlags(srcKeys)
          /\ \E oob \in BOOLEAN :
               iters' = [iters EXCEPT !.fromIter = iter(revertFlags(srcKeys), TRUE, oob),
                                      !.toIter = iter(revertFlags(srcKeys), TRUE, oob)]
          /\ pc' = "md5Loop" /\ UNCHANGED result
  /\ UNCHANGED <<cfg, mayFail, call, loaded, mgr, jobs, main, handed, env, srcDb, dstDb, dstSess, txOpen, destKeys, diff, stmts,
                 wlog, dbRw, rowsRead, run, prev, dst0>>

\* the rows a compare select returns: key columns and the MD5 tail
Md5Rows(db, ord) == [i \in 1..Len(ord) |-> [key |-> ord[i], md5 |-> Md5Check(db[ord[i]])]]

\* a plausible slip: the flag is set when the two MD5 are equal
RECURSIVE CompareMd5Inverted(_, _, _, _, _)
CompareMd5Inverted(tk, it, srcRows, destRows, i) ==
  IF i > Len(srcRows) THEN [tk |-> tk, it |-> it]
  ELSE LET t1 == setFlag(tk, it.index, srcRows[i].md5 = destRows[i].md5)
       IN CompareMd5Inverted(t1, IterNext(t1, it), srcRows, destRows, i + 1)

\* the for loop of the MD5 compare: row i of the source result against row i
\* of the target result, the verdict stored at the position of the iterator
RECURSIVE CompareMd5(_, _, _, _, _)
CompareMd5(tk, it, srcRows, destRows, i) ==
  IF i > Len(srcRows) THEN [tk |-> tk, it |-> it]
  ELSE LET t1 == setFlag(tk, it.index, srcRows[i].md5 # destRows[i].md5)
       IN CompareMd5(t1, IterNext(t1, it), srcRows, destRows, i + 1)

\* what the asserts of the MD5 loop require: as many rows on both sides, row
\* i of both results carrying the key the iterator is at
RECURSIVE Aligned(_, _, _, _, _)
Aligned(tk, it, srcRows, destRows, i) ==
  IF i > Len(srcRows) THEN TRUE
  ELSE /\ srcRows[i].key = destRows[i].key
       /\ ~IterEnd(tk, it) /\ KeyAt(tk, it.index) = srcRows[i].key
       /\ Aligned(tk, IterNext(tk, it), srcRows, destRows, i + 1)

\* one turn of the MD5 loop of Operation::executeUpdate, and, when it was the
\* last, the code between the two loops
Md5Window ==
  /\ pc = "md5Loop" /\ result = "none"
  /\ LET bulk == Min(total - count, cfg.modifyBulk)
         st1 == IF count = 0 \/ bulk < cfg.modifyBulk
                THEN [stmts EXCEPT !.fromRead = bulk, !.toRead = bulk] ELSE stmts
         s == TakeKeys(srcKeys, iters.fromIter, st1.fromRead)
         d == TakeKeys(srcKeys, iters.toIter, st1.toRead)
         sFound == {k \in Range(s.keys) : srcDb[k] # Absent}
         dFound == {k \in Range(d.keys) : dstSess[k] # Absent}
     IN /\ stmts' = st1
        /\ \E rok \in OkSet([cfg EXCEPT !.dryRun = FALSE], mayFail) :
             IF ~rok
             THEN /\ pc' = Return("md5Loop", AfterUpdate, FALSE).pc
                  /\ result' = Return("md5Loop", AfterUpdate, FALSE).result
                  /\ UNCHANGED <<srcKeys, iters, count, total, dbRw, rowsRead>>
             ELSE \E so \in Orders(sFound), do \in Orders(dFound), asserted \in BOOLEAN :
                    LET srcRows == Md5Rows(srcDb, so)
                        destRows == Md5Rows(dstSess, do)
                        ok == /\ Len(srcRows) = Len(destRows)
                              /\ Aligned(srcKeys, iters.fromIter, srcRows, destRows, 1)
                    IN IF Len(srcRows) # Len(destRows) \/ (~ok /\ asserted)
                       THEN /\ result' = "abort"
                            /\ UNCHANGED <<pc, srcKeys, iters, count, total, dbRw, rowsRead>>
                       ELSE LET c == CompareMd5(srcKeys, iters.fromIter, srcRows, destRows, 1)
                                n == sizeFlag(c.tk, TRUE)
                            IN /\ srcKeys' = c.tk
                               /\ dbRw' = dbRw + Len(srcRows) + Len(destRows)
                               /\ rowsRead' = rowsRead + Len(srcRows) + Len(destRows)
                               /\ IF ~IterEnd(c.tk, s.it)
                                  THEN /\ iters' = [iters EXCEPT !.fromIter = s.it, !.toIter = d.it]
                                       /\ count' = count + Len(srcRows)
                                       /\ UNCHANGED <<pc, result, total>>
                                  ELSE /\ total' = n /\ count' = 0
                                       /\ IF n = 0
                                          THEN /\ pc' = Return("md5Loop", AfterUpdate, TRUE).pc
                                               /\ result' = Return("md5Loop", AfterUpdate, TRUE).result
                                               /\ iters' = [iters EXCEPT !.fromIter = s.it, !.toIter = d.it]
                                          ELSE /\ pc' = "updLoop" /\ UNCHANGED result
                                               /\ \E oob \in BOOLEAN :
                                                    iters' = [iters EXCEPT !.fromIter = s.it, !.toIter = d.it,
                                                                           !.indexIter = iter(c.tk, TRUE, oob)]
  /\ UNCHANGED <<cfg, mayFail, call, loaded, mgr, jobs, main, handed, env, srcDb, dstDb, dstSess, txOpen, destKeys, diff, wlog, run, prev, dst0>>

\* one turn of the update loop of Operation::executeUpdate: bulk select of
\* the chunk's source rows, then one transaction of UPDATEs
UpdateChunk ==
  /\ pc = "updLoop" /\ result = "none"
  /\ LET bulk == Min(total - count, cfg.modifyBulk)
         st1 == IF count = 0 \/ bulk < cfg.modifyBulk
                THEN [stmts EXCEPT !.fromRead = bulk] ELSE stmts
         sel == TakeKeys(srcKeys, iters.indexIter, st1.fromRead)
         found == {k \in Range(sel.keys) : srcDb[k] # Absent}
     IN \E rok \in OkSet([cfg EXCEPT !.dryRun = FALSE], mayFail) :
          IF ~rok
          THEN /\ pc' = Return("updLoop", AfterUpdate, FALSE).pc
               /\ result' = Return("updLoop", AfterUpdate, FALSE).result
               /\ stmts' = st1
               /\ UNCHANGED <<dstDb, dstSess, txOpen, iters, count, wlog, dbRw, rowsRead>>
          ELSE \E ord \in Orders(found), oks \in [1..Cardinality(found) -> OkSet(cfg, mayFail)] :
                 LET rows == [i \in 1..Len(ord) |-> RowFields(ord[i], srcDb[ord[i]])]
                     w == WriteRows("UPDATE", rows, oks, 1,
                                    [sess |-> SessAtBegin, log |-> wlog, ret |-> TRUE, n |-> 0], cfg)
                     r == IF ~w.ret THEN Return("updLoop", AfterUpdate, FALSE)
                          ELSE IF IterEnd(srcKeys, sel.it) THEN Return("updLoop", AfterUpdate, TRUE)
                          ELSE [pc |-> "updLoop", result |-> "none"]
                 IN /\ pc' = r.pc /\ result' = r.result /\ rowsRead' = rowsRead + Len(rows)
                    /\ stmts' = IF count = 0 THEN [st1 EXCEPT !.write = "update"] ELSE st1
                    /\ wlog' = w.log
                    /\ dstSess' = w.sess
                    /\ iters' = [iters EXCEPT !.indexIter = sel.it]
                    /\ dstDb' = Committed(dstDb, w)
                    /\ IF ~w.ret
                       THEN /\ txOpen' = TRUE
                            /\ dbRw' = dbRw + Len(rows)
                            /\ UNCHANGED count
                       ELSE /\ txOpen' = FALSE
                            /\ count' = count + Len(rows)
                            /\ dbRw' = dbRw + Len(rows) + Len(rows)
  /\ UNCHANGED <<cfg, mayFail, call, loaded, mgr, jobs, main, handed, env, srcDb, srcKeys, destKeys, diff, total, run, prev, dst0>>

\* the keys the loop of executeDelete visits, in its order
RECURSIVE IterKeys(_, _)
IterKeys(tk, it) ==
  IF IterEnd(tk, it) THEN <<>> ELSE <<KeyAt(tk, it.index)>> \o IterKeys(tk, IterNext(tk, it))

\* Operation::executeDelete: one transaction of DELETEs bound from destKeys
ExecuteDelete ==
  /\ pc = "delete" /\ result = "none"
  /\ IF diff[3] = 0
     THEN /\ pc' = Return("delete", "done", TRUE).pc
          /\ result' = Return("delete", "done", TRUE).result
          /\ UNCHANGED <<total, count, iters, stmts, wlog, dstDb, dstSess, txOpen, dbRw>>
     ELSE \E oob \in BOOLEAN, oks \in [1..diff[3] -> OkSet(cfg, mayFail)] :
            LET it == iter(destKeys, TRUE, oob)
                ks == IterKeys(destKeys, it)
                w == WriteRows("DELETE", ks, oks, 1,
                               [sess |-> SessAtBegin, log |-> wlog, ret |-> TRUE, n |-> 0], cfg)
            IN /\ total' = diff[3] /\ count' = IF w.ret THEN w.n ELSE w.n + 1
               /\ stmts' = [stmts EXCEPT !.write = "delete"]
               /\ wlog' = w.log /\ dstSess' = w.sess
               /\ dbRw' = dbRw + w.n
               /\ pc' = Return("delete", "done", w.ret).pc
               /\ result' = Return("delete", "done", w.ret).result
               /\ dstDb' = Committed(dstDb, w)
               /\ IF ~w.ret
                  THEN /\ txOpen' = TRUE
                       /\ iters' = [iters EXCEPT !.indexIter = [it EXCEPT !.index = KeyPos(destKeys, ks[w.n + 1])]]
                  ELSE /\ txOpen' = FALSE
                       /\ iters' = [iters EXCEPT !.indexIter = [it EXCEPT !.index = destKeys.count]]
  /\ UNCHANGED <<cfg, mayFail, call, loaded, mgr, jobs, main, handed, env, srcDb, srcKeys, destKeys, diff, rowsRead, run, prev, dst0>>

Next == LoadAndCompare \/ ExecuteAddBegin \/ AddChunk \/ ExecuteUpdateBegin \/ Md5Window
          \/ UpdateChunk \/ ExecuteDelete

Spec == Init /\ [][Next]_vars

\* OperationConfig with its compareBulk, for runs that update and write
CompareConfigs ==
  [mode : {"Copy", "Sync"}, update : {TRUE}, dryRun : {FALSE}, noFail : {FALSE},
   modifyBulk : 1..MaxBulk, compareBulk : 1..MaxBulk]

\* one run with update, in which no read and no statement fails
InitCompare ==
  /\ pc = "load" /\ result = "none"
  /\ cfg \in CompareConfigs
  /\ mayFail = FALSE
  /\ srcDb \in Tables /\ dstDb \in Tables
  /\ dstSess = dstDb /\ dst0 = dstDb /\ txOpen = FALSE
  /\ srcKeys = NewTableKeys /\ destKeys = NewTableKeys
  /\ diff = <<0, 0, 0>> /\ iters = NoIters /\ count = 0 /\ total = 0
  /\ stmts = NoStmts /\ wlog = <<>> /\ dbRw = 0 /\ rowsRead = 0
  /\ run = 1 /\ prev = NoPrev
  /\ loaded = <<FALSE, FALSE>>
  /\ mgr = IdleMgr /\ jobs = IdleJobs /\ main = IdleMain /\ handed = <<>>
  /\ env = IdleEnv /\ call = NoCall

SpecCompare == InitCompare /\ [][Next]_vars

\* the program is run a second time on the two tables as the first run left
\* them, in either mode and with the rest of the configuration unchanged
Rerun ==
  /\ pc = "done" /\ result = "ok" /\ run = 1
  /\ run' = 2
  /\ prev' = [mode |-> cfg.mode,
               nUpd |-> IF cfg.update /\ diff[2] > 0 THEN sizeFlag(srcKeys, TRUE) ELSE 0]
  /\ \E m \in {"Copy", "Sync"} : cfg' = [cfg EXCEPT !.mode = m]
  /\ pc' = "load" /\ result' = "none"
  /\ dstSess' = dstDb /\ txOpen' = FALSE
  /\ srcKeys' = NewTableKeys /\ destKeys' = NewTableKeys
  /\ diff' = <<0, 0, 0>> /\ iters' = NoIters /\ count' = 0 /\ total' = 0
  /\ stmts' = NoStmts /\ wlog' = <<>> /\ dbRw' = 0 /\ rowsRead' = 0
  /\ loaded' = <<FALSE, FALSE>>
  /\ UNCHANGED <<mayFail, call, srcDb, dstDb, dst0>>
  /\ UNCHANGED schedVars

\* two runs in a row of a non-dry configuration, no statement failing
InitRerun ==
  /\ pc = "load" /\ result = "none"
  /\ cfg \in {c \in Configs : ~c.dryRun /\ ~c.noFail}
  /\ mayFail = FALSE
  /\ srcDb \in Tables /\ dstDb \in Tables
  /\ dstSess = dstDb /\ dst0 = dstDb /\ txOpen = FALSE
  /\ srcKeys = NewTableKeys /\ destKeys = NewTableKeys
  /\ diff = <<0, 0, 0>> /\ iters = NoIters /\ count = 0 /\ total = 0
  /\ stmts = NoStmts /\ wlog = <<>> /\ dbRw = 0 /\ rowsRead = 0
  /\ run = 1 /\ prev = NoPrev
  /\ loaded = <<FALSE, FALSE>>
  /\ mgr = IdleMgr /\ jobs = IdleJobs /\ main = IdleMain /\ handed = <<>>
  /\ env = IdleEnv /\ call = NoCall

NextRerun == Next \/ Rerun

SpecRerun == InitRerun /\ [][NextRerun]_vars

\* one run that writes, in which a key load may return false and no
\* statement is failed by the database
InitLoad ==
  /\ pc = "load" /\ result = "none"
  /\ cfg \in {c \in Configs : ~c.dryRun}
  /\ mayFail = FALSE
  /\ srcDb \in Tables /\ dstDb \in Tables
  /\ dstSess = dstDb /\ dst0 = dstDb /\ txOpen = FALSE
  /\ srcKeys = NewTableKeys /\ destKeys = NewTableKeys
  /\ diff = <<0, 0, 0>> /\ iters = NoIters /\ count = 0 /\ total = 0
  /\ stmts = NoStmts /\ wlog = <<>> /\ dbRw = 0 /\ rowsRead = 0
  /\ run = 1 /\ prev = NoPrev
  /\ loaded = <<FALSE, FALSE>>
  /\ mgr = IdleMgr /\ jobs = IdleJobs /\ main = IdleMain /\ handed = <<>>
  /\ env = IdleEnv /\ call = NoCall

NextLoad == Next \/ LoadFailed

SpecLoad == InitLoad /\ [][NextLoad]_vars

\* one run that writes, no statement failed by the database, during which
\* stop() may be called
InitStop ==
  /\ pc = "load" /\ result = "none"
  /\ cfg \in {c \in Configs : ~c.dryRun}
  /\ mayFail = FALSE
  /\ srcDb \in Tables /\ dstDb \in Tables
  /\ dstSess = dstDb /\ dst0 = dstDb /\ txOpen = FALSE
  /\ srcKeys = NewTableKeys /\ destKeys = NewTableKeys
  /\ diff = <<0, 0, 0>> /\ iters = NoIters /\ count = 0 /\ total = 0
  /\ stmts = NoStmts /\ wlog = <<>> /\ dbRw = 0 /\ rowsRead = 0
  /\ run = 1 /\ prev = NoPrev
  /\ loaded = <<FALSE, FALSE>>
  /\ mgr = IdleMgr /\ jobs = IdleJobs /\ main = IdleMain /\ handed = <<>>
  /\ env = IdleEnv /\ call = NoCall

NextStop == Next \/ StopWhileRunning

SpecStop == InitStop /\ [][NextStop]_vars

\* ---------------------------------------------------------------- SpecJobs
\* main() from the signal handlers on, the shared Operation and the workers
Signals == {"SIGINT", "SIGTERM", "SIGQUIT"}

\* the condition of the if that installs the handlers: sigaction returns 0
\* when it succeeds, so && goes on to the next signal only after a failure
InstallHandlers(fails) ==
  IF "SIGINT" \notin fails THEN [installed |-> {"SIGINT"}, failed |-> {}, err |-> FALSE]
  ELSE IF "SIGTERM" \notin fails
       THEN [installed |-> {"SIGTERM"}, failed |-> {"SIGINT"}, err |-> FALSE]
  ELSE IF "SIGQUIT" \notin fails
       THEN [installed |-> {"SIGQUIT"}, failed |-> {"SIGINT", "SIGTERM"}, err |-> FALSE]
  ELSE [installed |-> {}, failed |-> Signals, err |-> TRUE]

\* the signal handlers of main
Install ==
  /\ main.pc = "signals"
  /\ \E fails \in (IF mayFail THEN SUBSET Signals ELSE {{}}) :
       LET r == InstallHandlers(fails)
       IN main' = [main EXCEPT !.installed = r.installed, !.failed = r.failed,
                               !.pc = IF r.err THEN "exit" ELSE "create",
                               !.exit = IF r.err THEN 50 ELSE @]
  /\ UNCHANGED <<cfg, mayFail, call, mgr, jobs, handed, env>> /\ UNCHANGED tableVars

\* int jobCount of main
JobCount == Min(Cardinality(mgr.tables), IF main.param > 0 THEN main.param ELSE main.hw)

\* OpJob::OpJob
NewOpJob == [pc |-> "new", table |-> 0, ret |-> TRUE, run |-> TRUE]

\* main: create and initialize workers
CreateWorkers ==
  /\ main.pc = "create"
  /\ \E initOk \in (IF mayFail /\ JobCount > 0 THEN BOOLEAN ELSE {TRUE}) :
       IF initOk
       THEN /\ jobs' = [w \in 1..JobCount |-> NewOpJob]
            /\ main' = [main EXCEPT !.pc = "start"]
       ELSE /\ main' = [main EXCEPT !.pc = "exit", !.ok = FALSE, !.exit = 40]
            /\ UNCHANGED jobs
  /\ UNCHANGED <<cfg, mayFail, call, mgr, handed, env>> /\ UNCHANGED tableVars

\* main: start jobs
StartThreads ==
  /\ main.pc = "start"
  /\ jobs' = [w \in DOMAIN jobs |-> [jobs[w] EXCEPT !.pc = "take"]]
  /\ main' = [main EXCEPT !.pc = "wait", !.someRunning = TRUE]
  /\ UNCHANGED <<cfg, mayFail, call, mgr, handed, env>> /\ UNCHANGED tableVars

\* Operation::tableToProcess returning a table without taking it out of the set
tableToProcessKeeps(m, t) == [table |-> t, mgr |-> m]

\* Operation::tableToProcess, under the mutex: one table is taken out of the set
tableToProcess(m, t) == [table |-> t, mgr |-> [m EXCEPT !.tables = @ \ {t}]]

\* OpJob::execute(), top of its loop: leave when stopped or when no table is
\* left, else take a table
TakeTable(w) ==
  /\ main.pc # "killed"
  /\ w \in DOMAIN jobs /\ jobs[w].pc = "take"
  /\ IF ~canRun(mgr) \/ mgr.tables = {}
     THEN /\ jobs' = [jobs EXCEPT ![w].pc = "done", ![w].run = FALSE]
          /\ UNCHANGED <<mgr, handed>>
     ELSE \E t \in mgr.tables :
            LET r == tableToProcess(mgr, t)
            IN /\ mgr' = r.mgr
               /\ jobs' = [jobs EXCEPT ![w].pc = "exec", ![w].table = r.table]
               /\ handed' = [handed EXCEPT ![r.table].out = @ + 1]
  /\ UNCHANGED <<cfg, mayFail, call, main, env>> /\ UNCHANGED tableVars

\* OpJob::execute(), rest of its loop: the table is processed to its end and
\* its result kept; after a failure the worker goes on only under noFail
ExecTable(w) ==
  /\ main.pc # "killed"
  /\ w \in DOMAIN jobs /\ jobs[w].pc = "exec"
  /\ \E ok \in (IF mayFail THEN BOOLEAN ELSE {TRUE}) :
       jobs' = [jobs EXCEPT ![w].ret = @ /\ ok, ![w].table = 0,
                            ![w].pc = IF ok \/ cfg.noFail THEN "take" ELSE "done",
                            ![w].run = ok \/ cfg.noFail]
  /\ handed' = [handed EXCEPT ![jobs[w].table].done = @ + 1]
  /\ UNCHANGED <<cfg, mayFail, call, mgr, main, env>> /\ UNCHANGED tableVars

\* bool someRunning with the reset at the top of a turn left out
SomeRunningSticky(before, js) == before \/ \E w \in DOMAIN js : js[w].run

\* bool someRunning after a turn of the wait loop
SomeRunning(before, js) == \E w \in DOMAIN js : js[w].run

\* the workers whose result() main may read as the value ret had before the
\* worker's last write: OpJob::ret and OpJob::run are plain bools, written by
\* the worker's thread and read by main with nothing that orders the two, so
\* in the turn in which main first sees run false it may still see the old ret
MayReadOldRet(js, finished) ==
  {w \in DOMAIN js : ~js[w].run /\ ~js[w].ret /\ w \notin finished}

\* main: one turn of the wait loop
WaitTurn ==
  /\ main.pc = "wait"
  /\ \E old \in SUBSET MayReadOldRet(jobs, main.finished) :
       LET some == SomeRunning(main.someRunning, jobs)
           ok == main.ok /\ \A w \in DOMAIN jobs : ~jobs[w].run => (jobs[w].ret \/ w \in old)
       IN /\ main' = [main EXCEPT !.someRunning = some, !.ok = ok,
                                  !.pc = IF some THEN "wait" ELSE "join",
                                  !.finished = {w \in DOMAIN jobs : ~jobs[w].run}]
          /\ mgr' = IF ~ok /\ canRun(mgr) THEN stop(mgr) ELSE mgr
  /\ UNCHANGED <<cfg, mayFail, call, jobs, handed, env>> /\ UNCHANGED tableVars

\* main: join of every thread, then the exit code
Join ==
  /\ main.pc = "join"
  /\ \A w \in DOMAIN jobs : jobs[w].pc = "done"
  /\ main' = [main EXCEPT !.pc = "exit", !.exit = IF main.ok THEN 0 ELSE 100]
  /\ UNCHANGED <<cfg, mayFail, call, mgr, jobs, handed, env>> /\ UNCHANGED tableVars

\* a signal reaches the process: sigHandler where it was installed, else the
\* default action of the signal, which ends the process
Signal ==
  /\ main.pc \in {"create", "start", "wait", "join"}
  /\ \E sig \in Signals :
       IF sig \in main.installed
       THEN /\ mgr' = stop(mgr) /\ UNCHANGED main
       ELSE /\ main' = [main EXCEPT !.pc = "killed"] /\ UNCHANGED mgr
  /\ UNCHANGED <<cfg, mayFail, call, jobs, handed, env>> /\ UNCHANGED tableVars

\* the configurations that differ in what the scheduling reads: noFail
SchedConfigs ==
  {c \in Configs : c.mode = "Copy" /\ ~c.update /\ ~c.dryRun /\ c.modifyBulk = 1}

InitJobs ==
  /\ pc = "idle" /\ result = "none"
  /\ cfg \in SchedConfigs
  /\ mayFail = TRUE
  /\ srcDb = EmptyTable /\ dstDb = EmptyTable /\ dstSess = EmptyTable /\ dst0 = EmptyTable
  /\ srcKeys = NewTableKeys /\ destKeys = NewTableKeys
  /\ diff = <<0, 0, 0>> /\ txOpen = FALSE /\ iters = NoIters /\ count = 0 /\ total = 0
  /\ stmts = NoStmts /\ wlog = <<>> /\ dbRw = 0 /\ rowsRead = 0
  /\ run = 1 /\ prev = NoPrev /\ loaded = <<FALSE, FALSE>>
  /\ \E ts \in SUBSET (1..MaxTables), param \in 0..MaxJobs :
       /\ mgr = [run |-> TRUE, tables |-> ts]
       /\ main = [IdleMain EXCEPT !.pc = "signals", !.param = param, !.hw = MaxJobs,
                                  !.agreed = ts]
  /\ jobs = IdleJobs
  /\ handed = [t \in 1..MaxTables |-> [out |-> 0, done |-> 0]]
  /\ env = IdleEnv /\ call = NoCall

NextJobs ==
  \/ Install
  \/ CreateWorkers
  \/ StartThreads
  \/ \E w \in 1..MaxJobs : TakeTable(w)
  \/ \E w \in 1..MaxJobs : ExecTable(w)
  \/ WaitTurn
  \/ Join
  \/ Signal

SpecJobs == InitJobs /\ [][NextJobs]_vars

\* the same without failures and without signals, every thread scheduled
\* again and again: main and each worker are native threads and every step
\* of theirs returns
InitJobsLive ==
  /\ pc = "idle" /\ result = "none"
  /\ cfg \in SchedConfigs
  /\ mayFail = FALSE
  /\ srcDb = EmptyTable /\ dstDb = EmptyTable /\ dstSess = EmptyTable /\ dst0 = EmptyTable
  /\ srcKeys = NewTableKeys /\ destKeys = NewTableKeys
  /\ diff = <<0, 0, 0>> /\ txOpen = FALSE /\ iters = NoIters /\ count = 0 /\ total = 0
  /\ stmts = NoStmts /\ wlog = <<>> /\ dbRw = 0 /\ rowsRead = 0
  /\ run = 1 /\ prev = NoPrev /\ loaded = <<FALSE, FALSE>>
  /\ \E ts \in SUBSET (1..MaxTables), param \in 0..MaxJobs :
       /\ mgr = [run |-> TRUE, tables |-> ts]
       /\ main = [IdleMain EXCEPT !.pc = "signals", !.param = param, !.hw = MaxJobs,
                                  !.agreed = ts]
  /\ jobs = IdleJobs
  /\ handed = [t \in 1..MaxTables |-> [out |-> 0, done |-> 0]]
  /\ env = IdleEnv /\ call = NoCall

NextJobsLive ==
  \/ Install
  \/ CreateWorkers
  \/ StartThreads
  \/ \E w \in 1..MaxJobs : TakeTable(w)
  \/ \E w \in 1..MaxJobs : ExecTable(w)
  \/ WaitTurn
  \/ Join

FairJobs ==
  /\ WF_vars(Install) /\ WF_vars(CreateWorkers) /\ WF_vars(StartThreads)
  /\ WF_vars(WaitTurn) /\ WF_vars(Join)
  /\ \A w \in 1..MaxJobs : WF_vars(TakeTable(w)) /\ WF_vars(ExecTable(w))

SpecJobsLive == InitJobsLive /\ [][NextJobsLive]_vars /\ FairJobs

\* --------------------------------------------------------------- SpecStart
\* main() from the command line to the signal handlers. Table names are
\* 1..MaxTables, the empty string is 0.
MAX_TABLE == 1000

Commands == {"help", "version", "copy", "sync"}

\* the options main reads before it opens a database
Arguments ==
  [cmds : SUBSET Commands, jobs : -1..1, pkBulk : 0..1, compareBulk : 0..1,
   modifyBulk : 0..1, from : BOOLEAN, to : BOOLEAN]

\* the names of a set of tables in the order of SQL_TABLES (order by 1)
RECURSIVE Sorted(_)
Sorted(S) ==
  IF S = {} THEN <<>>
  ELSE LET m == CHOOSE x \in S : \A y \in S : x <= y
       IN <<m>> \o Sorted(S \ {m})

\* dbsync::strings v{ n }: n empty strings
Strings(n) == [i \in 1..n |-> 0]

\* Db::loadTables: one execution of SQL_TABLES into the vector. soci fills at
\* most as many elements as the vector has and resizes it to the rows
\* fetched; it refuses a vector of size 0
loadTables(tables, schema) ==
  IF Len(tables) = 0 THEN [ok |-> FALSE, tables |-> tables]
  ELSE [ok |-> TRUE,
        tables |-> SubSeq(Sorted(schema), 1, Min(Len(tables), Cardinality(schema)))]

\* main: parse and check arguments. Exit code, or -1 to go on
CheckArguments(a) ==
  IF Cardinality(a.cmds) > 1 THEN 2
  ELSE IF a.jobs < 0 THEN 3
  ELSE IF a.pkBulk < 1 THEN 4
  ELSE IF a.modifyBulk < 1 THEN 5
  ELSE IF a.cmds = {} \/ "help" \in a.cmds THEN 0
  ELSE IF "version" \in a.cmds THEN 0
  ELSE -1

ReadArguments ==
  /\ main.pc = "args"
  /\ \E parsed \in BOOLEAN :
       LET code == IF parsed THEN CheckArguments(env.args) ELSE 1
       IN main' = [main EXCEPT !.pc = IF code = -1 THEN "source" ELSE "exit",
                               !.exit = code, !.param = env.args.jobs]
  /\ UNCHANGED <<cfg, mayFail, call, mgr, jobs, handed, env>> /\ UNCHANGED tableVars

\* main: configure source db
SourceDb ==
  /\ main.pc = "source"
  /\ IF ~env.args.from
     THEN /\ main' = [main EXCEPT !.pc = "exit", !.exit = 10] /\ UNCHANGED env
     ELSE \E opened, fetched \in BOOLEAN, schema \in SUBSET (1..MaxTables) :
            LET r == loadTables(Strings(MAX_TABLE), schema)
            IN IF ~opened
               THEN /\ main' = [main EXCEPT !.pc = "exit", !.exit = 11] /\ UNCHANGED env
               ELSE IF ~(fetched /\ r.ok)
               THEN /\ main' = [main EXCEPT !.pc = "exit", !.exit = 12]
                    /\ env' = [env EXCEPT !.srcTables = schema]
               ELSE /\ main' = [main EXCEPT !.pc = "target"]
                    /\ env' = [env EXCEPT !.srcTables = schema, !.fromTables = r.tables]
  /\ UNCHANGED <<cfg, mayFail, call, mgr, jobs, handed>> /\ UNCHANGED tableVars

\* main: configure target db. The tables of the target are loaded into
\* fromTables; toTables stays as it was constructed
TargetDb ==
  /\ main.pc = "target"
  /\ IF ~env.args.to
     THEN /\ main' = [main EXCEPT !.pc = "exit", !.exit = 20] /\ UNCHANGED env
     ELSE \E opened, fetched \in BOOLEAN, schema \in SUBSET (1..MaxTables) :
            LET r == loadTables(env.fromTables, schema)
            IN IF ~opened
               THEN /\ main' = [main EXCEPT !.pc = "exit", !.exit = 21] /\ UNCHANGED env
               ELSE IF ~(fetched /\ r.ok)
               THEN /\ main' = [main EXCEPT !.pc = "exit", !.exit = 22]
                    /\ env' = [env EXCEPT !.dstTables = schema]
               ELSE /\ main' = [main EXCEPT !.pc = "tables"]
                    /\ env' = [env EXCEPT !.dstTables = schema, !.fromTables = r.tables]
  /\ UNCHANGED <<cfg, mayFail, call, mgr, jobs, handed>> /\ UNCHANGED tableVars

\* Operation::checkTables. hits are the tables for which the second loop's
\* find(dest.begin(), dest.end(), f) == src.end() is true: the iterators
\* belong to two vectors, the comparison has no defined result
checkTables(filter, src, dest, hits) ==
  LET found == {f \in filter : f \in Range(src)}
      tables == IF filter = {} THEN Range(src) ELSE found
  IN IF filter # found THEN [ok |-> FALSE, tables |-> tables]
     ELSE [ok |-> tables \cap hits = {}, tables |-> tables]

\* main: the tables filter, the Operation, checkTables(fromTables, toTables)
CheckTables ==
  /\ main.pc = "tables"
  /\ \E filter \in SUBSET (1..MaxTables) :
       \E hits \in SUBSET (IF filter = {} THEN Range(env.fromTables) ELSE filter) :
         LET r == checkTables(filter, env.fromTables, Strings(MAX_TABLE), hits)
         IN /\ env' = [env EXCEPT !.filter = filter]
            /\ mgr' = [run |-> TRUE, tables |-> r.tables]
            /\ main' = [main EXCEPT !.pc = IF r.ok THEN "meta" ELSE "exit",
                                    !.exit = IF r.ok THEN @ ELSE 30,
                                    !.agreed = r.tables]
  /\ UNCHANGED <<cfg, mayFail, call, jobs, handed>> /\ UNCHANGED tableVars

\* ColumnInfo: name, type, nullable, primaryKey
ColumnInfos ==
  { [name |-> 1, type |-> 1, nullable |-> FALSE, primaryKey |-> FALSE],
    [name |-> 2, type |-> 1, nullable |-> FALSE, primaryKey |-> FALSE],
    [name |-> 1, type |-> 2, nullable |-> FALSE, primaryKey |-> FALSE],
    [name |-> 1, type |-> 1, nullable |-> TRUE, primaryKey |-> FALSE],
    [name |-> 1, type |-> 1, nullable |-> FALSE, primaryKey |-> TRUE] }

\* TableInfo::columns as Db::loadMetadata fills it: the rows of SQL_COLUMNS,
\* none for a table the schema does not have
Columns(present) ==
  IF present THEN UNION {[1..n -> ColumnInfos] : n \in 1..MaxCols} ELSE {<<>>}

\* Operation::checkMetadataColumns comparing the column counts only
checkMetadataColumnsCount(src, dest) == Len(src) = Len(dest)

\* Operation::checkMetadataColumns
checkMetadataColumns(src, dest) ==
  IF Len(src) # Len(dest) THEN FALSE
  ELSE \A i \in 1..Len(src) : ~(src[i] # dest[i])

\* Operation::checkMetadata up to the for_each
CheckMetadata ==
  /\ main.pc = "meta"
  /\ \E asserted, srcLoaded, dstLoaded \in BOOLEAN :
       IF mgr.tables = {} /\ asserted
       THEN /\ main' = [main EXCEPT !.pc = "abort"] /\ UNCHANGED env
       ELSE IF ~(srcLoaded /\ dstLoaded)
       THEN /\ main' = [main EXCEPT !.pc = "exit", !.exit = 31] /\ UNCHANGED env
       ELSE /\ env' = [env EXCEPT !.metaLoaded = TRUE, !.todo = mgr.tables,
                                  !.checkColumns = TRUE]
            /\ main' = [main EXCEPT !.pc = IF mgr.tables = {} THEN "signals" ELSE "columns"]
  /\ UNCHANGED <<cfg, mayFail, call, mgr, jobs, handed>> /\ UNCHANGED tableVars

\* two column vectors are the same: same length, and at every position the
\* same name, type, nullable and primaryKey
SameColumns(src, dest) ==
  /\ Len(src) = Len(dest)
  /\ \A i \in 1..Len(src) :
       /\ src[i].name = dest[i].name /\ src[i].type = dest[i].type
       /\ src[i].nullable = dest[i].nullable /\ src[i].primaryKey = dest[i].primaryKey

\* Operation::checkMetadata, one turn of the for_each, and main's test of
\* the result after the last
CheckColumns ==
  /\ main.pc = "columns"
  /\ LET t == CHOOSE x \in env.todo : \A y \in env.todo : x <= y
     IN \E src \in Columns(t \in env.srcTables), dest \in Columns(t \in env.dstTables) :
          LET ok == env.checkColumns /\ checkMetadataColumns(src, dest)
              todo == env.todo \ {t}
          IN /\ env' = [env EXCEPT !.todo = todo, !.checkColumns = ok,
                                   !.differ = IF SameColumns(src, dest) THEN @ ELSE @ \cup {t}]
             /\ main' = [main EXCEPT !.pc = IF todo # {} THEN "columns"
                                           ELSE IF ok THEN "signals" ELSE "exit",
                                     !.exit = IF todo = {} /\ ~ok THEN 31 ELSE @]
  /\ UNCHANGED <<cfg, mayFail, call, mgr, jobs, handed>> /\ UNCHANGED tableVars

InitStart ==
  /\ pc = "idle" /\ result = "none"
  /\ cfg = IdleCfg
  /\ mayFail = TRUE
  /\ srcDb = EmptyTable /\ dstDb = EmptyTable /\ dstSess = EmptyTable /\ dst0 = EmptyTable
  /\ srcKeys = NewTableKeys /\ destKeys = NewTableKeys
  /\ diff = <<0, 0, 0>> /\ txOpen = FALSE /\ iters = NoIters /\ count = 0 /\ total = 0
  /\ stmts = NoStmts /\ wlog = <<>> /\ dbRw = 0 /\ rowsRead = 0
  /\ run = 1 /\ prev = NoPrev /\ loaded = <<FALSE, FALSE>>
  /\ mgr = IdleMgr /\ jobs = IdleJobs /\ handed = <<>>
  /\ main = [IdleMain EXCEPT !.pc = "args"]
  /\ \E a \in Arguments : env = [IdleEnv EXCEPT !.args = a]
  /\ call = NoCall

NextStart ==
  \/ ReadArguments
  \/ SourceDb
  \/ TargetDb
  \/ CheckTables
  \/ CheckMetadata
  \/ CheckColumns

SpecStart == InitStart /\ [][NextStart]_vars

\* checkMetadata alone, for the first n tables of a source schema, each of
\* them in the target schema or not
InitMeta ==
  /\ pc = "idle" /\ result = "none"
  /\ cfg = IdleCfg
  /\ mayFail = TRUE
  /\ srcDb = EmptyTable /\ dstDb = EmptyTable /\ dstSess = EmptyTable /\ dst0 = EmptyTable
  /\ srcKeys = NewTableKeys /\ destKeys = NewTableKeys
  /\ diff = <<0, 0, 0>> /\ txOpen = FALSE /\ iters = NoIters /\ count = 0 /\ total = 0
  /\ stmts = NoStmts /\ wlog = <<>> /\ dbRw = 0 /\ rowsRead = 0
  /\ run = 1 /\ prev = NoPrev /\ loaded = <<FALSE, FALSE>>
  /\ jobs = IdleJobs /\ handed = <<>>
  /\ \E n \in 1..MaxTables : \E dst \in SUBSET (1..n) :
       /\ mgr = [run |-> TRUE, tables |-> 1..n]
       /\ main = [IdleMain EXCEPT !.pc = "meta", !.agreed = 1..n]
       /\ env = [IdleEnv EXCEPT !.srcTables = 1..n, !.dstTables = dst,
                                !.fromTables = Sorted(1..n)]
  /\ call = NoCall

NextMeta == CheckMetadata \/ CheckColumns

SpecMeta == InitMeta /\ [][NextMeta]_vars

\* ----------------------------------------------------------------- SpecRow
\* Field::operator<=> and TableRow::rotate called on their own
FieldTypes == {"dt_string", "dt_integer", "dt_double"}

\* Field::Field: type tag, indicator, value; a null Field keeps the zeroed
\* value it was constructed with
Fields ==
  {[dType |-> t, null |-> TRUE, v |-> 0] : t \in FieldTypes}
    \cup {[dType |-> t, null |-> FALSE, v |-> x] : t \in FieldTypes, x \in 0..1}

\* Field::operator<=> without the tests of the indicators
FieldCompareValues(a, b) ==
  IF a.dType = b.dType THEN CompareScalar(a.v, b.v) ELSE "unordered"

\* Field::operator<=>
FieldCompare(a, b) ==
  IF a.dType = b.dType
  THEN IF a.null
       THEN IF b.null THEN "equivalent" ELSE "less"
       ELSE IF b.null THEN "greater"
       ELSE CompareScalar(a.v, b.v)
  ELSE "unordered"

\* TableRow of 2..MaxWidth fields
TableRows == UNION {[1..n -> Fields] : n \in 2..MaxWidth}

CompareFields ==
  /\ call.fn = "compare" /\ ~call.done
  /\ call' = [call EXCEPT !.done = TRUE, !.ret = FieldCompare(call.a, call.b)]
  /\ UNCHANGED <<cfg, mayFail>> /\ UNCHANGED schedVars /\ UNCHANGED tableVars

RotateRow ==
  /\ call.fn = "rotate" /\ ~call.done
  /\ call' = [call EXCEPT !.done = TRUE, !.ret = rotate(call.row, call.k)]
  /\ UNCHANGED <<cfg, mayFail>> /\ UNCHANGED schedVars /\ UNCHANGED tableVars

\* the column lists of a table: its columns are named 1..n in the order of
\* SELECT *, pk are the primary-key columns
Layouts ==
  UNION {{[n |-> n, pk |-> pk] : pk \in (SUBSET (1..n)) \ {{}, 1..n}} : n \in 2..MaxWidth}

\* the text Db::updatePrepare builds from keys (the key table's column
\* names) and fields (the fetched row's column names): the columns of its
\* SET clause and of its WHERE clause in the order of their placeholders
updatePrepare(keys, fields) ==
  [keysCount |-> Len(keys),
   set |-> SubSeq(fields, Len(keys) + 1, Len(fields)),
   where |-> keys]

\* Db::updateExecute: the row rotated by keysCount and bound field by field
\* to the placeholders in the order of the statement's text
updateExecute(stmt, row) ==
  LET r == rotate(row, stmt.keysCount)
      cols == stmt.set \o stmt.where
  IN [i \in 1..Len(cols) |-> [col |-> cols[i], value |-> r[i]]]

\* updatePrepare and updateExecute on a row of SELECT * whose field at
\* position c is the value of column c
UpdateRow ==
  /\ call.fn = "update" /\ ~call.done
  /\ LET fields == [c \in 1..call.layout.n |-> c]
         stmt == updatePrepare(Sorted(call.layout.pk), fields)
     IN call' = [call EXCEPT !.done = TRUE,
                             !.ret = [stmt |-> stmt, bound |-> updateExecute(stmt, fields)]]
  /\ UNCHANGED <<cfg, mayFail>> /\ UNCHANGED schedVars /\ UNCHANGED tableVars

InitRow ==
  /\ pc = "idle" /\ result = "none"
  /\ cfg = IdleCfg /\ mayFail = FALSE
  /\ srcDb = EmptyTable /\ dstDb = EmptyTable /\ dstSess = EmptyTable /\ dst0 = EmptyTable
  /\ srcKeys = NewTableKeys /\ destKeys = NewTableKeys
  /\ diff = <<0, 0, 0>> /\ txOpen = FALSE /\ iters = NoIters /\ count = 0 /\ total = 0
  /\ stmts = NoStmts /\ wlog = <<>> /\ dbRw = 0 /\ rowsRead = 0
  /\ run = 1 /\ prev = NoPrev /\ loaded = <<FALSE, FALSE>>
  /\ mgr = IdleMgr /\ jobs = IdleJobs /\ main = IdleMain /\ handed = <<>>
  /\ env = IdleEnv
  /\ \/ \E a, b \in Fields :
          call = [fn |-> "compare", a |-> a, b |-> b, done |-> FALSE, ret |-> "none"]
     \/ \E row \in TableRows : \E k \in 1..(Len(row) - 1) :
          call = [fn |-> "rotate", row |-> row, k |-> k, done |-> FALSE, ret |-> <<>>]
     \/ \E layout \in Layouts :
          call = [fn |-> "update", layout |-> layout, done |-> FALSE, ret |-> <<>>]

NextRow == CompareFields \/ RotateRow \/ UpdateRow

SpecRow == InitRow /\ [][NextRow]_vars

\* ------------------------------------------------------------------ SpecPk
\* Db::loadPk on its own: a table that does not change while it is read,
\* whose rows every page query scans in the same order
\* a plausible slip: the loop goes on while a page returned any row
loadPkContinuesWhileRows(ok, n, bulk) == ok /\ n > 0

\* the condition of the while loop of Db::loadPk
loadPkContinues(ok, n, bulk) == ok /\ n = bulk

\* the rows of SELECT .. LIMIT limit OFFSET offset over the scan order
Page(order, limit, offset) ==
  SubSeq(order, offset + 1, Min(offset + limit, Len(order)))

\* one turn of the loop of Db::loadPk: the page query, whose consumer loads
\* the rows it is given; a query that throws has loaded the rows before
LoadPage ==
  /\ call.fn = "loadPk" /\ ~call.done
  /\ loadPkContinues(call.ok, call.loaded, call.bulk)
  /\ LET offset == call.data.count
         page == Page(call.order, call.bulk, offset)
     IN \E ok \in BOOLEAN :
          \E n \in (IF ok THEN {Len(page)} ELSE 0..Len(page)) :
            call' = [call EXCEPT
                       !.data = loadRows(@, SubSeq(page, 1, n)),
                       !.loaded = n,
                       !.ok = ok,
                       !.pages = Append(@, [limit |-> call.bulk, offset |-> offset,
                                            loaded |-> n, ok |-> ok])]
  /\ UNCHANGED <<cfg, mayFail>> /\ UNCHANGED schedVars /\ UNCHANGED tableVars

\* Db::loadPk after its loop
LoadPkReturn ==
  /\ call.fn = "loadPk" /\ ~call.done
  /\ ~loadPkContinues(call.ok, call.loaded, call.bulk)
  /\ call' = [call EXCEPT !.done = TRUE, !.ret = call.ok]
  /\ UNCHANGED <<cfg, mayFail>> /\ UNCHANGED schedVars /\ UNCHANGED tableVars

InitPk ==
  /\ pc = "idle" /\ result = "none"
  /\ cfg = IdleCfg /\ mayFail = FALSE
  /\ srcDb = EmptyTable /\ dstDb = EmptyTable /\ dstSess = EmptyTable /\ dst0 = EmptyTable
  /\ srcKeys = NewTableKeys /\ destKeys = NewTableKeys
  /\ diff = <<0, 0, 0>> /\ txOpen = FALSE /\ iters = NoIters /\ count = 0 /\ total = 0
  /\ stmts = NoStmts /\ wlog = <<>> /\ dbRw = 0 /\ rowsRead = 0
  /\ run = 1 /\ prev = NoPrev /\ loaded = <<FALSE, FALSE>>
  /\ mgr = IdleMgr /\ jobs = IdleJobs /\ main = IdleMain /\ handed = <<>>
  /\ env = IdleEnv
  /\ \E rows \in SUBSET KeyDom : \E order \in Orders(rows), bulk \in 1..MaxBulk :
       call = [fn |-> "loadPk", order |-> order, bulk |-> bulk, data |-> NewTableKeys,
               ok |-> TRUE, loaded |-> bulk, pages |-> <<>>, done |-> FALSE, ret |-> FALSE]

NextPk == LoadPage \/ LoadPkReturn

SpecPk == InitPk /\ [][NextPk]_vars

\* ---------------------------------------------------------------- SpecIter
\* TableKeys::iter, TableKeysIterator and the bind loop of Db::selectExecute
\* on a sorted key table with any flags
\* the indexes of flags[] read by the scan loop that starts at index i: it
\* reads flags[index] before it tests index < count, so it reads the index
\* it stops at too
ScanReads(tk, flag, i) == i..ScanFlag(tk, flag, i)

\* the parameters of one execution without the padding
selectBindNoPadding(keys, readCount) ==
  [i \in 1..(Len(keys) * KeysCount) |->
     [null |-> FALSE, v |-> keys[((i - 1) \div KeysCount) + 1][((i - 1) % KeysCount) + 1]]]

\* the parameters Db::selectExecute binds: keysCount per key taken from the
\* iterator (TableKeys::bind), then keysCount null parameters for each of
\* the readCount tuples that are left (bind of the empty row)
selectBind(keys, readCount) ==
  [i \in 1..(readCount * KeysCount) |->
     IF i <= Len(keys) * KeysCount
     THEN [null |-> FALSE, v |-> keys[((i - 1) \div KeysCount) + 1][((i - 1) % KeysCount) + 1]]
     ELSE [null |-> TRUE, v |-> 0]]

\* the key tables the diff leaves: loaded, sorted, with any flags
FlaggedTables ==
  UNION {UNION {{[sort(loadRows(NewTableKeys, order)) EXCEPT !.flags = f] :
                   f \in [1..Cardinality(rows) -> BOOLEAN]} :
                order \in Orders(rows)} : rows \in SUBSET KeyDom}

\* TableKeys::iter(flag) and the constructor of the iterator
IterBegin ==
  /\ call.fn = "iter" /\ call.stage = "new"
  /\ \E oob \in BOOLEAN :
       LET it == iter(call.tk, call.flag, oob)
       IN call' = [call EXCEPT
                     !.stage = "iter", !.it = it,
                     !.reads = ScanReads(call.tk, call.flag, 0) \cup {it.index},
                     !.visited = IF IterEnd(call.tk, it) THEN <<>> ELSE <<it.index>>]
  /\ UNCHANGED <<cfg, mayFail>> /\ UNCHANGED schedVars /\ UNCHANGED tableVars

\* TableKeysIterator::operator++ in a loop while(!it.end())
IterStep ==
  /\ call.fn = "iter" /\ call.stage = "iter"
  /\ ~IterEnd(call.tk, call.it)
  /\ LET it == IterNext(call.tk, call.it)
     IN call' = [call EXCEPT
                   !.it = it,
                   !.reads = @ \cup ScanReads(call.tk, call.it.flag, call.it.index + 1),
                   !.visited = IF IterEnd(call.tk, it) THEN @ ELSE Append(@, it.index)]
  /\ UNCHANGED <<cfg, mayFail>> /\ UNCHANGED schedVars /\ UNCHANGED tableVars

\* Db::selectExecute on the statement of width readCount, in a loop
\* while(!it.end())
SelectExecute ==
  /\ call.fn = "iter" /\ call.stage = "iter"
  /\ ~IterEnd(call.tk, call.it)
  /\ LET r == TakeKeys(call.tk, call.it, call.readCount)
     IN call' = [call EXCEPT
                   !.it = r.it, !.from = call.it, !.to = r.it, !.executed = TRUE,
                   !.taken = r.keys,
                   !.params = selectBind(r.keys, call.readCount)]
  /\ UNCHANGED <<cfg, mayFail>> /\ UNCHANGED schedVars /\ UNCHANGED tableVars

InitIter ==
  /\ pc = "idle" /\ result = "none"
  /\ cfg = IdleCfg /\ mayFail = FALSE
  /\ srcDb = EmptyTable /\ dstDb = EmptyTable /\ dstSess = EmptyTable /\ dst0 = EmptyTable
  /\ srcKeys = NewTableKeys /\ destKeys = NewTableKeys
  /\ diff = <<0, 0, 0>> /\ txOpen = FALSE /\ iters = NoIters /\ count = 0 /\ total = 0
  /\ stmts = NoStmts /\ wlog = <<>> /\ dbRw = 0 /\ rowsRead = 0
  /\ run = 1 /\ prev = NoPrev /\ loaded = <<FALSE, FALSE>>
  /\ mgr = IdleMgr /\ jobs = IdleJobs /\ main = IdleMain /\ handed = <<>>
  /\ env = IdleEnv
  /\ \E tk \in FlaggedTables, flag \in BOOLEAN, readCount \in 1..MaxBulk :
       call = [fn |-> "iter", stage |-> "new", tk |-> tk, flag |-> flag,
               readCount |-> readCount, it |-> NoIter, from |-> NoIter, to |-> NoIter,
               reads |-> {},
               visited |-> <<>>, executed |-> FALSE, taken |-> <<>>, params |-> <<>>]

NextIter == IterBegin \/ IterStep \/ SelectExecute

SpecIter == InitIter /\ [][NextIter]_vars

\* --------------------------------------------------------------- SpecApply
\* Db::apply on its own
\* Db::error: the number of a MySQL error (0 when there is none) and the
\* text; call.entered keeps the error the connection had when apply began
NoError == [num |-> 0, what |-> ""]

\* what the operation thunk does: it returns, or throws one of the three
\* kinds of exception apply catches, each with a what() and, for the MySQL
\* one, an err_num_
Thunks ==
  {[kind |-> "returns", num |-> 0, what |-> ""]}
    \cup [kind : {"mysql_soci_error"}, num : {1062}, what : {"duplicate", "gone away"}]
    \cup [kind : {"soci_error", "exception"}, num : {0}, what : {"duplicate", "gone away"}]

\* what the cleanup thunk is: not given, returning, or throwing
Finallys == {"nullptr", "returns", "throws"}

\* a plausible slip: the last error is left as it was on success
applyTryKeepsError(lambda, error) ==
  IF lambda.kind = "returns" THEN [ok |-> TRUE, error |-> error]
  ELSE [ok |-> FALSE,
        error |-> [num |-> IF lambda.kind = "mysql_soci_error" THEN lambda.num ELSE 0,
                   what |-> lambda.what]]

\* the try block of Db::apply and its three handlers
applyTry(lambda, error) ==
  IF lambda.kind = "returns" THEN [ok |-> TRUE, error |-> NoError]
  ELSE [ok |-> FALSE,
        error |-> [num |-> IF lambda.kind = "mysql_soci_error" THEN lambda.num ELSE 0,
                   what |-> lambda.what]]

ApplyTry ==
  /\ call.fn = "apply" /\ call.stage = "try"
  /\ LET r == applyTry(call.lambda, call.error)
     IN call' = [call EXCEPT !.stage = "finally", !.ok = r.ok, !.error = r.error]
  /\ UNCHANGED <<cfg, mayFail>> /\ UNCHANGED schedVars /\ UNCHANGED tableVars

\* if(finally) try { finally(); } catch(...) {}; return ok
ApplyFinally ==
  /\ call.fn = "apply" /\ call.stage = "finally"
  /\ call' = [call EXCEPT !.stage = "returned", !.ret = call.ok,
                          !.cleanups = IF call.finally = "nullptr" THEN @ ELSE @ + 1]
  /\ UNCHANGED <<cfg, mayFail>> /\ UNCHANGED schedVars /\ UNCHANGED tableVars

InitApply ==
  /\ pc = "idle" /\ result = "none"
  /\ cfg = IdleCfg /\ mayFail = FALSE
  /\ srcDb = EmptyTable /\ dstDb = EmptyTable /\ dstSess = EmptyTable /\ dst0 = EmptyTable
  /\ srcKeys = NewTableKeys /\ destKeys = NewTableKeys
  /\ diff = <<0, 0, 0>> /\ txOpen = FALSE /\ iters = NoIters /\ count = 0 /\ total = 0
  /\ stmts = NoStmts /\ wlog = <<>> /\ dbRw = 0 /\ rowsRead = 0
  /\ run = 1 /\ prev = NoPrev /\ loaded = <<FALSE, FALSE>>
  /\ mgr = IdleMgr /\ jobs = IdleJobs /\ main = IdleMain /\ handed = <<>>
  /\ env = IdleEnv
  /\ \E lambda \in Thunks, finally \in Finallys,
        error \in {NoError, [num |-> 0, what |-> "earlier"]} :
       call = [fn |-> "apply", stage |-> "try", lambda |-> lambda, finally |-> finally,
               entered |-> error, error |-> error, ok |-> FALSE, cleanups |-> 0,
               ret |-> FALSE]

NextApply == ApplyTry \/ ApplyFinally

SpecApply == InitApply /\ [][NextApply]_vars

\* --------------------------------------------------------------- SpecWrite
\* Db::stmtWrite of the target connection over the phases of the tables of
\* a run: what each phase prepares and what its executions run
\* stmtWrite without a value
NoStmt == [family |-> "none", table |-> 0]

\* the statement family of executeAdd, executeUpdate, executeDelete
Family(phase) ==
  IF phase = "add" THEN "INSERT" ELSE IF phase = "update" THEN "UPDATE" ELSE "DELETE"

\* Operation::execute(table) and Operation::execute(): the phase after a
\* phase, the table after a table
PhaseAfter(c) ==
  IF c.phase = "add" THEN [c EXCEPT !.phase = "update"]
  ELSE IF c.phase = "update" THEN [c EXCEPT !.phase = "delete"]
  ELSE IF c.table < MaxTables THEN [c EXCEPT !.phase = "add", !.table = @ + 1]
  ELSE [c EXCEPT !.phase = "end"]

\* insertPrepare / updatePrepare / deletePrepare: stmtWrite is assigned
\* inside the thunk of apply, so a prepare that throws leaves it as it was;
\* the phases do not test what the prepare returned
PrepareWrite ==
  /\ call.fn = "write" /\ call.phase \in {"add", "update", "delete"} /\ ~call.prepared
  /\ \E ok \in BOOLEAN :
       call' = [call EXCEPT !.prepared = TRUE,
                            !.stmtWrite = IF ok THEN [family |-> Family(call.phase),
                                                      table |-> call.table]
                                          ELSE @]
  /\ UNCHANGED <<cfg, mayFail>> /\ UNCHANGED schedVars /\ UNCHANGED tableVars

\* insertExecute / updateExecute / deleteExecute of a row of the phase:
\* bind and execute on stmtWrite, whatever it holds
ExecuteWrite ==
  /\ call.fn = "write" /\ call.phase \in {"add", "update", "delete"} /\ call.prepared
  /\ call.n < MaxRows
  /\ call' = [call EXCEPT !.n = @ + 1,
                          !.last = [ran |-> call.stmtWrite, family |-> Family(call.phase),
                                    table |-> call.table]]
  /\ UNCHANGED <<cfg, mayFail>> /\ UNCHANGED schedVars /\ UNCHANGED tableVars

\* the phase returns: before its prepare when it has no key to write or is
\* not configured, else after its loop
LeavePhase ==
  /\ call.fn = "write" /\ call.phase \in {"add", "update", "delete"}
  /\ call' = [PhaseAfter(call) EXCEPT !.prepared = FALSE, !.n = 0]
  /\ UNCHANGED <<cfg, mayFail>> /\ UNCHANGED schedVars /\ UNCHANGED tableVars

InitWrite ==
  /\ pc = "idle" /\ result = "none"
  /\ cfg = IdleCfg /\ mayFail = FALSE
  /\ srcDb = EmptyTable /\ dstDb = EmptyTable /\ dstSess = EmptyTable /\ dst0 = EmptyTable
  /\ srcKeys = NewTableKeys /\ destKeys = NewTableKeys
  /\ diff = <<0, 0, 0>> /\ txOpen = FALSE /\ iters = NoIters /\ count = 0 /\ total = 0
  /\ stmts = NoStmts /\ wlog = <<>> /\ dbRw = 0 /\ rowsRead = 0
  /\ run = 1 /\ prev = NoPrev /\ loaded = <<FALSE, FALSE>>
  /\ mgr = IdleMgr /\ jobs = IdleJobs /\ main = IdleMain /\ handed = <<>>
  /\ env = IdleEnv
  /\ call = [fn |-> "write", table |-> 1, phase |-> "add", prepared |-> FALSE, n |-> 0,
             stmtWrite |-> NoStmt, last |-> [ran |-> NoStmt, family |-> "none", table |-> 0]]

NextWrite == PrepareWrite \/ ExecuteWrite \/ LeavePhase

SpecWrite == InitWrite /\ [][NextWrite]_vars

\* ------------------------------------------------------ claims on SpecKeys
\* no key is loaded twice
UniqueKeys(tk) == \A i, j \in 1..tk.count : tk.keys[i] = tk.keys[j] => i = j
KeySet(tk) == {tk.keys[i] : i \in 1..tk.count}
Positions(tk) == 0..(tk.count - 1)
FlaggedKeys(tk, f) == {KeyAt(tk, i) : i \in {p \in Positions(tk) : tk.flags[p + 1] = f}}

\* C1: after compareKeys on two sorted tables of unique keys, a source
\* position is flagged iff its key is not in the target, a target position
\* is flagged iff its key is not in the source, and a key of both sides is
\* unflagged on both sides.
C1_DiffClassifies ==
  (pc = "kdone" /\ UniqueKeys(srcKeys) /\ UniqueKeys(destKeys)) =>
    /\ \A i \in Positions(srcKeys) :
         srcKeys.flags[i + 1] <=> KeyAt(srcKeys, i) \notin KeySet(destKeys)
    /\ \A j \in Positions(destKeys) :
         destKeys.flags[j + 1] <=> KeyAt(destKeys, j) \notin KeySet(srcKeys)
    /\ \A i \in Positions(srcKeys), j \in Positions(destKeys) :
         KeyAt(srcKeys, i) = KeyAt(destKeys, j) =>
           ~srcKeys.flags[i + 1] /\ ~destKeys.flags[j + 1]

\* the merge has classified a source-only, a common and a target-only key,
\* from tables that were not loaded in key order
C1_Witness ==
  /\ pc = "kdone" /\ UniqueKeys(srcKeys) /\ UniqueKeys(destKeys)
  /\ diff[1] > 0 /\ diff[2] > 0 /\ diff[3] > 0
  /\ ~srcKeys.sorted /\ ~destKeys.sorted

\* C2: after compareKeys, onlySrc + common = |src| and onlyDest + common =
\* |dest| (the assertion common == dest.size() - onlyDest holds), the
\* unflagged positions of the two sides are equally many, and on unique keys
\* the source-only, common and target-only keys are pairwise disjoint.
C2_DiffCounts ==
  pc = "kdone" =>
    /\ diff[1] = Cardinality({i \in Positions(srcKeys) : srcKeys.flags[i + 1]})
    /\ diff[3] = Cardinality({j \in Positions(destKeys) : destKeys.flags[j + 1]})
    /\ diff[1] + diff[2] = srcKeys.count
    /\ diff[3] + diff[2] = destKeys.count
    /\ diff[2] = destKeys.count - sizeFlag(destKeys, TRUE)
    /\ Cardinality({i \in Positions(srcKeys) : ~srcKeys.flags[i + 1]})
         = Cardinality({j \in Positions(destKeys) : ~destKeys.flags[j + 1]})
    /\ (UniqueKeys(srcKeys) /\ UniqueKeys(destKeys)) =>
         /\ FlaggedKeys(srcKeys, TRUE) \cap FlaggedKeys(srcKeys, FALSE) = {}
         /\ FlaggedKeys(srcKeys, TRUE) \cap FlaggedKeys(destKeys, TRUE) = {}
         /\ FlaggedKeys(srcKeys, FALSE) \cap FlaggedKeys(destKeys, TRUE) = {}
         /\ FlaggedKeys(srcKeys, FALSE) = FlaggedKeys(destKeys, FALSE)

\* a merge over tables with a repeated key, all three classes non-empty
C2_Witness ==
  /\ pc = "kdone" /\ ~UniqueKeys(srcKeys)
  /\ diff[1] > 0 /\ diff[2] > 0 /\ diff[3] > 0

\* C3: after TableKeys::sort the keys read through the permutation never
\* decrease, whatever the rows loaded before, the sort skipped or not.
C3_SortedAfterSort ==
  pc \in {"ksorted", "kdone"} =>
    \A tk \in {srcKeys, destKeys} :
      /\ Len(tk.index) = tk.count
      /\ \A i, j \in Positions(tk) :
           i < j => compare(tk, tk.index[i + 1], tk, tk.index[j + 1]) \in {"less", "equivalent"}

\* one table sorted by the shortcut, the other by the sort, both of full size
C3_Witness ==
  /\ pc = "ksorted"
  /\ srcKeys.count = MaxLoad /\ srcKeys.sorted
  /\ destKeys.count = MaxLoad /\ ~destKeys.sorted
  /\ destKeys.index # [i \in 1..destKeys.count |-> i - 1]

\* every key loaded is followed by one that compare() finds in rel to it
InLoadOrder(tk, rel) ==
  \A i \in 0..(tk.count - 2) : compare(tk, i, tk, i + 1) \in rel

Identity(tk) == [i \in 1..tk.count |-> i - 1]

\* C34 (as stated): the sorted-on-load flag is true exactly when the keys
\* loaded never decrease in load order, and when it is true sort leaves the
\* identity permutation.
C34_SortedOnLoadNonDecreasing ==
  \A tk \in {srcKeys, destKeys} :
    /\ tk.sorted <=> InLoadOrder(tk, {"less", "equivalent"})
    /\ (pc \in {"ksorted", "kdone"} /\ tk.sorted) => tk.index = Identity(tk)

\* C34 (amended): the sorted-on-load flag is true exactly when every key
\* loaded is less than the key loaded after it, and when it is true sort
\* leaves the identity permutation.
C34_SortedOnLoadIncreasing ==
  \A tk \in {srcKeys, destKeys} :
    /\ tk.sorted <=> InLoadOrder(tk, {"less"})
    /\ (pc \in {"ksorted", "kdone"} /\ tk.sorted) => tk.index = Identity(tk)

\* after sort: one table loaded in increasing order, flag true, identity;
\* the other loaded with a key twice in a row and nothing out of order, flag
\* false
C34_Witness ==
  /\ pc = "ksorted"
  /\ srcKeys.count = MaxLoad /\ srcKeys.sorted /\ srcKeys.index = Identity(srcKeys)
  /\ destKeys.count = MaxLoad /\ ~destKeys.sorted
  /\ InLoadOrder(destKeys, {"less", "equivalent"})

\* ---------------------------------------------------------- claims on Spec
\* positions of the write log holding a statement of kind op
LogOps(op) == {i \in 1..Len(wlog) : wlog[i].op = op}
LogKeys(op) == {wlog[i].key : i \in LogOps(op)}
AllOk == \A i \in 1..Len(wlog) : wlog[i].ok
OpRank(op) == IF op = "INSERT" THEN 1 ELSE IF op = "UPDATE" THEN 2 ELSE 3
SrcOnly == Rows(srcDb) \ Rows(dst0)
DestOnly == Rows(dst0) \ Rows(srcDb)
Common == Rows(srcDb) \cap Rows(dst0)
\* the MD5 compare has run to its end: the flags of srcKeys are its verdicts
PastCompare == cfg.update /\ diff[2] > 0 /\ pc \in {"updLoop", "delete", "done"}
NeedsUpdate == IF cfg.update /\ diff[2] > 0 THEN sizeFlag(srcKeys, TRUE) ELSE 0

\* C4: within a table every INSERT precedes every UPDATE and every UPDATE
\* precedes every DELETE; a phase that returns failure ends the table: no
\* statement follows the failed one and no later phase runs.
C4_PhaseOrder ==
  /\ \A i, j \in 1..Len(wlog) : i < j => OpRank(wlog[i].op) <= OpRank(wlog[j].op)
  /\ ~cfg.noFail => \A i \in 1..(Len(wlog) - 1) : wlog[i].ok
  /\ result = "fail" =>
       /\ ~ENABLED Next
       /\ pc = "addLoop" => LogOps("UPDATE") = {} /\ LogOps("DELETE") = {}
       /\ pc \in {"md5Loop", "updLoop"} => LogOps("DELETE") = {}

\* a Sync run with Update that inserted, then failed an UPDATE, with
\* target-only keys left undeleted
C4_Witness ==
  /\ result = "fail" /\ pc = "updLoop" /\ cfg.mode = "Sync" /\ diff[3] > 0
  /\ LogOps("INSERT") # {} /\ LogOps("UPDATE") # {}

\* C5: with dryRun no INSERT, UPDATE or DELETE reaches the target, which
\* stays as it was; the reads are those of any run: both key loads, the diff
\* of the two key sets, two MD5 rows per common key when Update is on, one
\* source row per key to insert and per key to update.
C5_DryRunOnlyReads ==
  /\ cfg.dryRun => wlog = <<>> /\ dstDb = dst0 /\ dstSess = dst0
  /\ pc # "load" =>
       diff = <<Cardinality(SrcOnly), Cardinality(Common), Cardinality(DestOnly)>>
  /\ result = "ok" =>
       rowsRead = Cardinality(Rows(srcDb)) + Cardinality(Rows(dst0)) + diff[1]
                    + (IF cfg.update /\ diff[2] > 0 THEN 2 * diff[2] + NeedsUpdate ELSE 0)

\* a finished dry run of Sync with Update that had rows to insert, to update
\* and to delete
C5_Witness ==
  /\ cfg.dryRun /\ result = "ok" /\ cfg.mode = "Sync" /\ cfg.update
  /\ diff[1] > 0 /\ diff[3] > 0 /\ NeedsUpdate > 0

\* C6 (as stated): in a dry run the counter behind rwCount() equals the
\* number of rows read.
C6_DryRunCountsOnlyReads == cfg.dryRun => dbRw = rowsRead

\* C7: a Copy run never executes a DELETE; a Sync run that is not dry and in
\* which nothing fails executes a DELETE for exactly the keys the diff
\* flagged target-only, each once.
C7_DeletesOnlyInSync ==
  /\ cfg.mode = "Copy" => LogOps("DELETE") = {}
  /\ (cfg.mode = "Sync" /\ ~cfg.dryRun /\ result = "ok" /\ AllOk) =>
       /\ LogKeys("DELETE") = FlaggedKeys(destKeys, TRUE)
       /\ LogKeys("DELETE") = DestOnly
       /\ Cardinality(LogOps("DELETE")) = Cardinality(DestOnly)

\* a finished Sync run that deleted a target-only key and kept a common one
C7_Witness ==
  /\ cfg.mode = "Sync" /\ ~cfg.dryRun /\ result = "ok" /\ AllOk
  /\ diff[3] > 0 /\ diff[2] > 0 /\ LogOps("DELETE") # {}

\* C10 (as stated): the keys flagged for update are exactly the common keys
\* whose non-key content differs, and after a run in which nothing failed
\* every common key holds the source's content in the target.
C10_UpdateSetExact ==
  /\ PastCompare => FlaggedKeys(srcKeys, TRUE) = {k \in Common : srcDb[k] # dst0[k]}
  /\ (PastCompare /\ result = "ok" /\ ~cfg.dryRun /\ AllOk) =>
       \A k \in Common : dstDb[k] = srcDb[k]

\* C28 (as stated): once the MD5 compare is over, the flag of every common
\* key is true exactly when the MD5 of its source row differs from the MD5 of
\* its target row, in whatever order the two selects returned their rows.
C28_FlagIsMd5Verdict ==
  PastCompare =>
    \A k \in Common :
      (k \in FlaggedKeys(srcKeys, TRUE)) <=> (Md5Check(srcDb[k]) # Md5Check(dst0[k]))

\* C30: in a run that writes and in which nothing fails, every turn of the
\* Add loop INSERTs between 1 and modifyBulk source-only keys that were not
\* inserted before, in a transaction that is committed when the turn ends,
\* and the loop ends with every source-only key inserted once and count
\* equal to their number.
C30_AddInsertsSourceOnly ==
  [][(pc = "addLoop" /\ ~cfg.dryRun /\ result' # "fail" /\ AllOk') =>
       LET new == SubSeq(wlog', Len(wlog) + 1, Len(wlog'))
       IN /\ Len(new) \in 1..cfg.modifyBulk
          /\ \A i \in 1..Len(new) :
               /\ new[i].op = "INSERT"
               /\ new[i].key \in SrcOnly \ LogKeys("INSERT")
               /\ \A j \in 1..Len(new) : new[i].key = new[j].key => i = j
               /\ dstDb'[new[i].key] = srcDb[new[i].key]
          /\ ~txOpen' /\ dstDb' = dstSess'
          /\ count' = count + Len(new)
          /\ pc' # "addLoop" =>
               /\ count' = Cardinality(SrcOnly)
               /\ LogKeys("INSERT")' = SrcOnly
               /\ Cardinality(LogOps("INSERT"))' = Cardinality(SrcOnly)]_vars

\* the Add loop has ended after more than one chunk, the last one smaller
\* than modifyBulk; every source-only key is in the committed target
C30_Witness ==
  /\ pc = "update" /\ result = "none" /\ ~cfg.dryRun /\ AllOk
  /\ Cardinality(SrcOnly) > cfg.modifyBulk
  /\ count = Cardinality(SrcOnly) /\ LogKeys("INSERT") = SrcOnly
  /\ \A k \in SrcOnly : dstDb[k] = srcDb[k]

\* C39: the keys updated are common keys and none of them is a key that was
\* inserted: once the MD5 compare is over no source-only key is flagged, and
\* every UPDATE is of a common key that no INSERT of the run names.
C39_UpdatesOnlyCommon ==
  /\ PastCompare => FlaggedKeys(srcKeys, TRUE) \subseteq Common
  /\ LogKeys("UPDATE") \subseteq Common
  /\ LogKeys("UPDATE") \cap LogKeys("INSERT") = {}

\* a run that inserted a source-only key and then updated a common key
C39_Witness ==
  /\ pc = "done" /\ result = "ok" /\ ~cfg.dryRun /\ AllOk
  /\ LogKeys("INSERT") # {} /\ LogKeys("UPDATE") # {}
  /\ FlaggedKeys(srcKeys, FALSE) \cap SrcOnly # {}

\* the keys a chunk of executeAdd / executeUpdate fetches from the source:
\* those the bulk SELECT binds from the iterator, whatever order the rows
\* come back in
ChunkKeys ==
  LET sel == TakeKeys(srcKeys, iters.indexIter, stmts'.fromRead)
  IN {k \in Range(sel.keys) : srcDb[k] # Absent}

\* the keys of the statements a step added to the write log with success
WrittenKeys == {wlog'[i].key : i \in {j \in (Len(wlog) + 1)..Len(wlog') : wlog'[j].ok}}

\* a chunk of executeAdd or of the write loop of executeUpdate that ran
\* statements
WroteChunk == pc \in {"addLoop", "updLoop"} /\ Len(wlog') > Len(wlog)

\* C40: the target content that executeAdd and the write loop of
\* executeUpdate produce does not depend on the order in which the bulk
\* SELECT returns the source rows, and every INSERT / UPDATE writes the
\* values of the source row its key comes from: after a chunk the session
\* holds, at every key whose statement succeeded, the source's row of that
\* key and elsewhere what it held at transactionBegin; a chunk without a
\* failed statement writes exactly the keys bound to the SELECT and commits
\* them, which is a function of the state before the chunk alone
C40_WriteOrderFree ==
  [][WroteChunk =>
       /\ WrittenKeys \subseteq ChunkKeys
       /\ dstSess' = [k \in KeyDom |-> IF k \in WrittenKeys THEN srcDb[k] ELSE SessAtBegin[k]]
       /\ (\A j \in (Len(wlog) + 1)..Len(wlog') : wlog'[j].ok) =>
            /\ WrittenKeys = ChunkKeys
            /\ dstDb' = [k \in KeyDom |-> IF k \in ChunkKeys THEN srcDb[k] ELSE SessAtBegin[k]]]_vars

\* a chunk of two rows with different values has been written and committed
C40_Witness ==
  /\ pc = "done" /\ result = "ok" /\ ~cfg.dryRun /\ AllOk
  /\ cfg.modifyBulk = 2
  /\ Cardinality(LogKeys("INSERT")) = 2 \/ Cardinality(LogKeys("UPDATE")) = 2
  /\ \E k1, k2 \in LogKeys("INSERT") \cup LogKeys("UPDATE") : srcDb[k1] # srcDb[k2]

\* -------------------------------------------------- claims on SpecCompare
\* C29 (as stated): every turn of the MD5 loop prepares and reads a window
\* of min(remaining, compareBulk) common keys on both sides, so every window
\* but the last has exactly compareBulk keys.
C29_CompareBulkWindows ==
  [][(pc = "md5Loop" /\ rowsRead' # rowsRead) =>
       LET width == Min(total - count, cfg.compareBulk)
       IN /\ stmts'.fromRead = width /\ stmts'.toRead = width
          /\ rowsRead' = rowsRead + 2 * width]_vars

\* ----------------------------------------------------- claims on SpecRerun
\* C8 (as stated): a second Sync run with Update, right after a first one
\* that succeeded, finds nothing to insert, delete or update and writes
\* nothing.
C8_SecondRunFindsNothing ==
  (run = 2 /\ prev.mode = "Sync" /\ cfg.mode = "Sync" /\ cfg.update /\ result = "ok") =>
    diff[1] = 0 /\ diff[3] = 0 /\ NeedsUpdate = 0 /\ wlog = <<>>

\* C9 (as stated): a Sync run right after a Copy run writes nothing.
C9_SyncAfterCopyWritesNothing ==
  (run = 2 /\ prev.mode = "Copy" /\ cfg.mode = "Sync") => wlog = <<>>

\* C9 (amended): a Sync run right after a Copy run that was not dry and in
\* which nothing failed finds no source-only key and executes no INSERT; it
\* deletes the keys that were only in the target before the Copy run, and no
\* other; with Update off it executes no UPDATE.
C9_SyncAfterCopy ==
  (run = 2 /\ prev.mode = "Copy" /\ cfg.mode = "Sync") =>
    /\ LogOps("INSERT") = {}
    /\ pc # "load" => diff[1] = 0
    /\ ~cfg.update => LogOps("UPDATE") = {}
    /\ LogKeys("DELETE") \subseteq DestOnly
    /\ result = "ok" => LogKeys("DELETE") = DestOnly

\* a finished Sync run after a Copy run that had inserted, deleting the keys
\* the Copy run left in the target
C9_Witness ==
  /\ run = 2 /\ prev.mode = "Copy" /\ cfg.mode = "Sync" /\ result = "ok"
  /\ SrcOnly # {} /\ LogOps("DELETE") # {}


\* ---------------------------------------------- claims on Spec: transactions
\* what a prefix of the write log makes of the table t: a statement that
\* succeeded writes the source's row or removes the row
RECURSIVE Replay(_, _)
Replay(t, log) ==
  IF log = <<>> THEN t
  ELSE LET e == Head(log)
           t1 == IF ~e.ok THEN t
                 ELSE IF e.op = "DELETE" THEN [t EXCEPT ![e.key] = Absent]
                 ELSE IF e.op = "UPDATE" /\ t[e.key] = Absent THEN t
                 ELSE [t EXCEPT ![e.key] = srcDb[e.key]]
       IN Replay(t1, Tail(log))

\* the statements of the write log that belong to chunks the loop got past
CommittedLen ==
  IF pc = "addLoop" THEN count
  ELSE IF pc = "updLoop" THEN Cardinality(LogOps("INSERT")) + count
  ELSE IF pc = "delete" THEN Len(wlog) - Cardinality(LogOps("DELETE"))
  ELSE Len(wlog)

\* C11: the committed target is always the target of before the run with the
\* statements of whole chunks applied: the rows a loop got past are a
\* multiple of the chunk size (or all of them), and when a statement fails
\* without noFail the statements of its chunk (for Delete, all deletions)
\* are in the session only, never in the committed table.
C11_WholeChunksCommitted ==
  ~cfg.dryRun =>
    /\ dstDb = Replay(dst0, SubSeq(wlog, 1, CommittedLen))
    /\ pc \in {"addLoop", "updLoop"} => (count % cfg.modifyBulk = 0 \/ count = total)
    /\ (~cfg.noFail /\ ~AllOk) =>
         /\ CommittedLen < Len(wlog)
         /\ Len(wlog) - CommittedLen <= (IF pc = "delete" THEN diff[3] ELSE cfg.modifyBulk)
         /\ ~wlog[Len(wlog)].ok

\* a chunk whose first statement succeeded and whose second failed: the
\* session holds the first, the committed table does not
C11_Witness ==
  /\ result = "fail" /\ ~cfg.noFail /\ ~cfg.dryRun
  /\ Len(wlog) - CommittedLen >= 2 /\ wlog[CommittedLen + 1].ok
  /\ dstSess # dstDb


\* C12 (as stated): no transaction of the target session is open at a chunk
\* boundary, at a phase boundary or when the table's processing has
\* returned: each was committed or rolled back before.
C12_NoTxLeftOpen == ~txOpen

\* C13: with noFail a failed statement does not end the loop: every row of
\* the chunk gets its statement, the chunk is committed and no write loop
\* returns false; without noFail the failed statement is the last one, the
\* phase returns false at once and the table ends in failure.
C13_NoFailPolicy ==
  /\ cfg.noFail =>
       /\ ~txOpen /\ dstSess = dstDb
       /\ ~cfg.dryRun => Len(wlog) = CommittedLen
       /\ (result = "ok" /\ ~cfg.dryRun) =>
            Len(wlog) = diff[1] + NeedsUpdate + (IF cfg.mode = "Sync" THEN diff[3] ELSE 0)
  /\ (~cfg.noFail /\ ~AllOk) =>
       /\ result = "fail" /\ txOpen
       /\ ~wlog[Len(wlog)].ok
       /\ \A i \in 1..(Len(wlog) - 1) : wlog[i].ok

\* a finished noFail run in which the first statement of a chunk of two
\* failed and the second was still executed
C13_Witness ==
  /\ cfg.noFail /\ result = "ok" /\ cfg.modifyBulk = 2
  /\ Len(wlog) >= 2 /\ ~wlog[1].ok /\ wlog[2].ok /\ wlog[1].op = wlog[2].op


\* ----------------------------------------------------- claims on SpecLoad
\* C14 (as stated, for the key loads): when a key load has returned false
\* the table's processing ends there, in failure, without a diff and
\* without a statement on the target.
C14_ReadFailureAborts ==
  (pc # "load" \/ result # "none") =>
    ((~loaded[1] \/ ~loaded[2]) =>
       /\ result \in {"fail", "abort"} /\ pc = "load"
       /\ diff = <<0, 0, 0>> /\ wlog = <<>>)


\* C35 (as stated): a key table the diff, an iterator or a bind works on has
\* a permutation of 0..rowCount-1 and rowCount flags; right after sort all
\* its flags are false.
C35_KeyTableShape ==
  \A tk \in {srcKeys, destKeys} :
    /\ pc \in {"diff", "add", "addLoop", "update", "md5Loop", "updLoop", "delete", "done"} =>
         /\ Len(tk.index) = tk.count /\ Range(tk.index) = 0..(tk.count - 1)
         /\ Len(tk.flags) = tk.count
    /\ pc = "ksorted" => \A i \in 1..Len(tk.flags) : ~tk.flags[i]

\* ----------------------------------------------------- claims on SpecStop
\* C15 (as stated): once the running flag is false the worker executes no
\* further statement on the target and commits nothing more.
C15_StopObserved ==
  [][~canRun(mgr) => (wlog' = wlog /\ dstDb' = dstDb)]_vars


\* ----------------------------------------------------- claims on SpecJobs
\* C16 (as stated): once main is past the installation the handler is
\* installed for each of SIGINT, SIGTERM and SIGQUIT, and a sigaction that
\* failed has ended main with exit code 50.
C16_HandlersInstalled ==
  /\ main.pc \in {"create", "start", "wait", "join"} => main.installed = Signals
  /\ (main.pc # "signals" /\ main.failed # {}) => main.exit = 50

\* C17: whatever the interleaving of the workers, tableToProcess has returned
\* each table at most once and only tables of the agreed set; no two workers
\* hold the same table, and a table of the set is either still pending or
\* was handed out.
C17_TableHandedOnce ==
  /\ \A t \in 1..MaxTables :
       /\ handed[t].out <= 1
       /\ handed[t].out > 0 => t \in main.agreed
       /\ t \in main.agreed => ((t \in mgr.tables) <=> (handed[t].out = 0))
  /\ \A w1, w2 \in DOMAIN jobs :
       (w1 # w2 /\ jobs[w1].table # 0) => jobs[w1].table # jobs[w2].table

\* two workers are processing a table each while a third table is pending
C17_Witness ==
  /\ \E w1, w2 \in DOMAIN jobs : w1 # w2 /\ jobs[w1].pc = "exec" /\ jobs[w2].pc = "exec"
  /\ mgr.tables # {}

\* C19 (as stated): with noFail set, main learning that a worker's table
\* failed while another worker is still running leaves the running flag as
\* it was.
C19_NoFailKeepsRunning ==
  [][(cfg.noFail /\ main.ok /\ ~main'.ok /\ \E w \in DOMAIN jobs : jobs[w].run)
       => mgr' = mgr]_vars

\* C20: the running flag never goes from false to true, so canRun() stays
\* false once stop() was called.
C20_RunMonotone ==
  [][~canRun(mgr) => ~canRun(mgr')]_vars

\* stop() was called while a worker was running and main went on to its exit
C20_Witness ==
  /\ ~canRun(mgr) /\ main.pc = "exit" /\ jobs # IdleJobs


\* C25 (as stated): when main returns after the wait loop, the exit code is
\* 0 exactly when the final result of every worker is success, and 100 when
\* some worker's is failure.
C25_ExitCodeIsResult ==
  (main.pc = "exit" /\ main.exit \in {0, 100}) =>
    (main.exit = 0 <=> \A w \in DOMAIN jobs : jobs[w].ret)

Wanted == IF env.filter = {} THEN env.srcTables ELSE env.filter

\* C21 (as stated): checkTables returns true exactly when every table to
\* process is in the source schema and in the target schema; when it has
\* returned false main has ended with exit code 30 and no worker exists.
C21_CheckTablesBothSides ==
  main.pc \in {"meta", "columns", "signals", "exit", "abort"} /\ main.exit \notin 1..22 =>
    /\ main.exit # 30 <=> Wanted \subseteq env.srcTables \cap env.dstTables
    /\ main.exit = 30 => main.pc = "exit" /\ jobs = IdleJobs

\* C22 (as stated): once checkTables has returned true the tables to process
\* are the base tables of the source schema when the filter is empty, and
\* the tables of the filter otherwise.
C22_TablesToProcess ==
  main.pc \in {"meta", "columns", "signals"} =>
    mgr.tables = Wanted

\* C24 (as stated): a run whose arguments are missing or hold an invalid
\* tuning value, whose source schema is empty, which misses a table or whose
\* columns differ ends with a non-zero exit code of its own, and never gets
\* to the signal handlers and the workers.
Misuse ==
  (IF ~env.args.from THEN {"from"} ELSE {})
  \cup (IF ~env.args.to THEN {"to"} ELSE {})
  \cup (IF env.args.jobs < 0 THEN {"jobs"} ELSE {})
  \cup (IF env.args.pkBulk < 1 THEN {"pkBulk"} ELSE {})
  \cup (IF env.args.compareBulk < 1 THEN {"compareBulk"} ELSE {})
  \cup (IF env.args.modifyBulk < 1 THEN {"modifyBulk"} ELSE {})

\* the command line asks for a copy or for a sync
RunRequested == env.args.cmds \in {{"copy"}, {"sync"}}

C24_MisuseExits ==
  /\ main.pc = "signals" => Misuse = {} /\ env.srcTables # {} /\ env.differ = {}
  /\ main.pc = "signals" => Wanted \subseteq env.srcTables \cap env.dstTables
  /\ (main.pc = "exit" /\ RunRequested /\ Misuse # {}) => main.exit > 0
  /\ main.pc \in {"exit", "abort"} => jobs = IdleJobs /\ wlog = <<>>

\* ----------------------------------------------------- claims on SpecMeta
\* C23: when both metadata loads succeeded, checkMetadata returns true
\* exactly when for every table to process the two column vectors have the
\* same length and the same name, type, nullable and primaryKey at every
\* position; one table that differs makes it false.
C23_MetadataEqual ==
  /\ main.pc = "signals" => env.metaLoaded /\ env.differ = {} /\ env.checkColumns
  /\ (main.pc = "exit" /\ env.metaLoaded) => main.exit = 31 /\ env.differ # {}
  /\ main.pc = "columns" => (env.checkColumns <=> env.differ = {})

\* the check passed over several tables, and: it failed for one table only
C23_Witness ==
  /\ main.pc = "exit" /\ main.exit = 31 /\ Cardinality(env.differ) = 1
  /\ Cardinality(mgr.tables) > 1 /\ 1 \notin env.differ


\* ------------------------------------------------------ claims on SpecRow
\* C26: of two Fields with the same type tag a null one compares less than
\* a non-null one, a non-null one greater than a null one, two null ones
\* equivalent; the result is unordered exactly when the type tags differ.
C26_NullFirst ==
  (call.fn = "compare" /\ call.done) =>
    /\ call.a.dType = call.b.dType =>
         /\ (call.a.null /\ ~call.b.null) => call.ret = "less"
         /\ (~call.a.null /\ call.b.null) => call.ret = "greater"
         /\ (call.a.null /\ call.b.null) => call.ret = "equivalent"
    /\ call.ret = "unordered" <=> call.a.dType # call.b.dType

\* a null Field was compared with a non-null Field holding the same value
C26_Witness ==
  /\ call.fn = "compare" /\ call.done /\ call.ret = "less"
  /\ call.a.null /\ ~call.b.null /\ call.a.v = call.b.v

\* the number of positions of a row that hold field f
Times(row, f) == Cardinality({i \in 1..Len(row) : row[i] = f})

\* C27: after rotate(K) on a row of width N, 0 < K < N, the first N-K
\* positions hold the fields that were at K.. in order, the last K positions
\* the fields that were at 0..K-1 in order, and every field is there as
\* often as before.
C27_RotateMovesKeysLast ==
  (call.fn = "rotate" /\ call.done) =>
    LET N == Len(call.row)
        K == call.k
    IN /\ Len(call.ret) = N
       /\ \A i \in 1..(N - K) : call.ret[i] = call.row[K + i]
       /\ \A i \in 1..K : call.ret[N - K + i] = call.row[i]
       /\ \A f \in Fields : Times(call.ret, f) = Times(call.row, f)

\* a row of the largest width with no field twice was rotated by width - 1
C27_Witness ==
  /\ call.fn = "rotate" /\ call.done
  /\ Len(call.row) = MaxWidth /\ call.k = MaxWidth - 1
  /\ \A i, j \in 1..MaxWidth : i # j => call.row[i] # call.row[j]


\* C31 (as stated): the UPDATE prepared for a table sets exactly its
\* non-primary-key columns and filters on exactly its primary-key columns,
\* and every placeholder is bound to the value of the column it names,
\* wherever the primary-key columns stand in the table's column list.
C31_UpdateBindsByColumn ==
  (call.fn = "update" /\ call.done) =>
    /\ Range(call.ret.stmt.set) = (1..call.layout.n) \ call.layout.pk
    /\ Range(call.ret.stmt.where) = call.layout.pk
    /\ \A i \in 1..Len(call.ret.bound) : call.ret.bound[i].value = call.ret.bound[i].col


\* ------------------------------------------------------- claims on SpecPk
\* rows loaded by the first n page queries
RECURSIVE LoadedBy(_, _)
LoadedBy(pages, n) == IF n = 0 THEN 0 ELSE LoadedBy(pages, n - 1) + pages[n].loaded

\* C32: every page query of loadPk has LIMIT pkBulk and as OFFSET the number
\* of keys loaded so far; a page is followed by another exactly when it
\* succeeded and returned pkBulk rows, so the first short or failed page is
\* the last; loadPk returns whether its last page succeeded, and when no
\* page failed it has loaded every row of the table once.
C32_LoadPkPages ==
  call.fn = "loadPk" =>
    LET last == Len(call.pages)
    IN /\ \A i \in 1..last :
            /\ call.pages[i].limit = call.bulk
            /\ call.pages[i].offset = LoadedBy(call.pages, i - 1)
            /\ i < last => (call.pages[i].ok /\ call.pages[i].loaded = call.bulk)
       /\ call.done =>
            /\ last > 0
            /\ ~call.pages[last].ok \/ call.pages[last].loaded < call.bulk
            /\ call.ret = call.pages[last].ok
            /\ call.ret => call.data.keys = call.order

\* loadPk returned true after a page of pkBulk rows and an empty page
C32_Witness ==
  /\ call.fn = "loadPk" /\ call.done /\ call.ret
  /\ Len(call.pages) = 2 /\ call.pages[1].loaded = call.bulk /\ call.pages[2].loaded = 0
  /\ Len(call.order) = call.bulk


\* ----------------------------------------------------- claims on SpecIter
\* the sorted positions from position i on whose flag is f, in increasing order
RECURSIVE Matching(_, _, _)
Matching(tk, f, i) ==
  IF i >= tk.count THEN <<>>
  ELSE (IF tk.flags[i + 1] = f THEN <<i>> ELSE <<>>) \o Matching(tk, f, i + 1)

\* C33: an execution of the bulk SELECT binds exactly readCount x K
\* parameters: the K columns of each key taken from the iterator, in the
\* iterator's order, then NULL for every parameter that is left; the
\* iterator has moved on by the number of keys bound.
C33_SelectBindsWholeWidth ==
  (call.fn = "iter" /\ call.executed) =>
    LET ahead == Matching(call.tk, call.from.flag, call.from.index)
        n == Min(call.readCount, Len(ahead))
    IN /\ Len(call.params) = call.readCount * KeysCount
       /\ Len(call.taken) = n
       /\ \A i \in 1..n : \A c \in 1..KeysCount :
            /\ ~call.params[(i - 1) * KeysCount + c].null
            /\ call.params[(i - 1) * KeysCount + c].v = KeyAt(call.tk, ahead[i])[c]
       /\ \A j \in (n * KeysCount + 1)..(call.readCount * KeysCount) : call.params[j].null
       /\ call.to.index = (IF n < Len(ahead) THEN ahead[n + 1] ELSE call.tk.count)

\* the iterator ended before the statement's width was reached: one key was
\* bound and the rest of the parameters are NULL
C33_Witness ==
  /\ call.fn = "iter" /\ call.executed
  /\ Len(call.taken) = 1 /\ call.readCount = 2
  /\ call.params[KeysCount + 1].null /\ IterEnd(call.tk, call.to)

\* C38 (as stated): iter(flag) and the iterator never read flags at an index
\* >= rowCount, whatever the key table; the iterator visits exactly the
\* positions whose flag is the requested value, in increasing order, and
\* then reports end().
C38_IteratorInBounds ==
  (call.fn = "iter" /\ call.stage = "iter") =>
    /\ \A r \in call.reads : r < call.tk.count
    /\ (~call.executed /\ IterEnd(call.tk, call.it)) =>
         call.visited = Matching(call.tk, call.flag, 0)


\* ---------------------------------------------------- claims on SpecApply
\* C36: apply returns true exactly when the operation thunk returned; then
\* the last error is empty, else it holds the message of the exception
\* caught; a cleanup thunk that was given has run once on either path, and
\* its throwing changes nothing of the returned flag.
C36_ApplyEnvelope ==
  (call.fn = "apply" /\ call.stage = "returned") =>
    /\ call.ret <=> call.lambda.kind = "returns"
    /\ call.ret => call.error = NoError
    /\ ~call.ret => call.error.what = call.lambda.what
    /\ call.cleanups = (IF call.finally = "nullptr" THEN 0 ELSE 1)

\* a success after an earlier error, with a cleanup thunk that threw
C36_Witness ==
  /\ call.fn = "apply" /\ call.stage = "returned"
  /\ call.entered # NoError
  /\ call.ret /\ call.finally = "throws" /\ call.cleanups = 1 /\ call.error = NoError


\* ---------------------------------------------------- claims on SpecWrite
\* C37 (as stated): every INSERT, UPDATE or DELETE executed on the target
\* runs the statement prepared for the family and the table of the phase
\* that executes it, also when a prepare has failed.
C37_WriteRunsOwnStatement ==
  (call.fn = "write" /\ call.last.family # "none") =>
    call.last.ran = [family |-> call.last.family, table |-> call.last.table]

====
